---- MODULE Spec2Model ----
(***************************************************************************)
(* Model of the table-driven review pipeline of zotero-AI-Butler           *)
(* (src/src/modules/literatureReviewService.ts):                           *)
(*   - the table cache: findTableNote / saveTableNote,                     *)
(*   - the bounded worker pool: fillTablesInParallel.                      *)
(*                                                                         *)
(* Texts are sequences of one-character strings.  A note's HTML is a       *)
(* sequence whose elements are characters or whole tags ("<h2>", "<div>",  *)
(* ...); the escaping and unescaping of the hidden raw region work         *)
(* character by character, as the code's String.replace calls do.          *)
(*                                                                         *)
(* The host is single-threaded JavaScript: an action of the model is one   *)
(* synchronous run of the code between two suspension points (awaits).     *)
(***************************************************************************)
EXTENDS Integers, Sequences, FiniteSets, TLC

(***************************************************************************)
(* Bounds                                                                  *)
(***************************************************************************)
\* longest table text of the store-then-find scenario
MaxTextLen == 4
\* longest table text of the two-store and concurrent-store scenarios
SampleLen == 1
\* number of concurrent callers of saveTableNote
MaxClients == 2
\* longest pairs list handed to fillTablesInParallel
MaxPairs == 2
\* largest value of the concurrency argument
MaxConcurrency == 2

(***************************************************************************)
(* Texts                                                                   *)
(***************************************************************************)
Chars == {"&", "<", ">", "l", "t", ";", " ", "x"}
Whitespace == {" "}

BoundedSeq(S, n) == UNION {[1..k -> S] : k \in 0..n}

AllTexts == BoundedSeq(Chars, MaxTextLen)
SampleTexts == BoundedSeq(Chars, SampleLen)

\* JavaScript null for a string-or-null value (not a text: "null" is no character)
Null == <<"null">>

Min(a, b) == IF a < b THEN a ELSE b

\* String.prototype.replace(/pat/g, rep): leftmost, non-overlapping, one scan
RECURSIVE ReplaceAll(_, _, _)
ReplaceAll(s, pat, rep) ==
  IF Len(s) < Len(pat) THEN s
  ELSE IF SubSeq(s, 1, Len(pat)) = pat
       THEN rep \o ReplaceAll(SubSeq(s, Len(pat) + 1, Len(s)), pat, rep)
       ELSE <<s[1]>> \o ReplaceAll(Tail(s), pat, rep)

RECURSIVE TrimStart(_)
TrimStart(s) ==
  IF s # <<>> /\ s[1] \in Whitespace THEN TrimStart(Tail(s)) ELSE s

RECURSIVE TrimEnd(_)
TrimEnd(s) ==
  IF s # <<>> /\ s[Len(s)] \in Whitespace
  THEN TrimEnd(SubSeq(s, 1, Len(s) - 1)) ELSE s

\* F applied to the value of v, v being evaluated once: the steps of a chain
\* of string operations run one after the other
Then(v, F(_)) == CHOOSE r \in {F(x) : x \in {v}} : TRUE

\* String.prototype.trim
Trim(s) == Then(TrimStart(s), LAMBDA a : TrimEnd(a))

AMP == <<"&", "a", "m", "p", ";">>
LT == <<"&", "l", "t", ";">>
GT == <<"&", "g", "t", ";">>
QUOT == <<"&", "q", "u", "o", "t", ";">>

\* saveTableNote: tableContent.replace(/&/g,"&amp;").replace(/</g,"&lt;").replace(/>/g,"&gt;")
escapedRaw(tableContent) ==
  Then(Then(ReplaceAll(tableContent, <<"&">>, AMP),
            LAMBDA a : ReplaceAll(a, <<"<">>, LT)),
       LAMBDA b : ReplaceAll(b, <<">">>, GT))

\* findTableNote: rawMatch[1].replace(/&amp;/g,"&").replace(/&lt;/g,"<")
\*   .replace(/&gt;/g,">").replace(/&quot;/g,'"').trim()
UnescapeRaw(captured) ==
  Then(Then(Then(Then(ReplaceAll(captured, AMP, <<"&">>),
                      LAMBDA a : ReplaceAll(a, LT, <<"<">>)),
                 LAMBDA b : ReplaceAll(b, GT, <<">">>)),
            LAMBDA c : ReplaceAll(c, QUOT, <<"\"">>)),
       LAMBDA d : Trim(d))

(***************************************************************************)
(* Notes                                                                   *)
(***************************************************************************)
TABLE_NOTE_TAG == "AI-Table"

H2_OPEN == "<h2>"
H2_CLOSE == "</h2>"
DIV_OPEN == "<div>"
DIV_CLOSE == "</div>"
\* <div style="display:none" data-ai-table-raw>
RAW_OPEN == "<div data-ai-table-raw>"
P_OPEN == "<p>"
P_CLOSE == "</p>"
TagTokens == {H2_OPEN, H2_CLOSE, DIV_OPEN, DIV_CLOSE, RAW_OPEN, P_OPEN, P_CLOSE}
ClosingTokens == {DIV_CLOSE}

\* the heading text "📊 文献表格 - <title>" of a table note, kept as one element
HeadingText == <<"#">>
\* the display text marked.parse renders from a table (an external library):
\* nothing for a blank markdown text, otherwise some display text kept as one
\* element.  The display part never holds the raw-region marker.
RenderedHtml(tableContent) ==
  IF Trim(tableContent) = <<>> THEN <<>> ELSE <<P_OPEN, "~", P_CLOSE>>

\* saveTableNote: noteHtml = <h2>..</h2> + <div>rendered</div> + <div .. data-ai-table-raw>escaped</div>
noteHtml(tableContent) ==
  <<H2_OPEN>> \o HeadingText \o <<H2_CLOSE>>
  \o <<DIV_OPEN>> \o RenderedHtml(tableContent) \o <<DIV_CLOSE>>
  \o <<RAW_OPEN>> \o escapedRaw(tableContent) \o <<DIV_CLOSE>>

\* the note object saveTableNote builds: setNote(noteHtml); addTag(TABLE_NOTE_TAG)
NewTableNote(tableContent) ==
  [content |-> noteHtml(tableContent), tags |-> {TABLE_NOTE_TAG}]

\* index of the first element of s at or after i that lies in S, 0 if none
RECURSIVE IndexFrom(_, _, _)
IndexFrom(s, i, S) ==
  IF i > Len(s) THEN 0
  ELSE IF s[i] \in S THEN i ELSE IndexFrom(s, i + 1, S)

\* noteContent.match(/<(?:div|pre)[^>]*data-ai-table-raw[^>]*>([\s\S]*?)<\/(?:div|pre)>/):
\* the first raw-region opening tag that is followed by a closing tag; the
\* lazy group captures up to the first closing tag.
rawMatch(noteContent) ==
  LET open == IndexFrom(noteContent, 1, {RAW_OPEN})
      close == IF open = 0 THEN 0
               ELSE IndexFrom(noteContent, open + 1, ClosingTokens)
  IN IF open = 0 \/ close = 0
     THEN [matched |-> FALSE, group |-> <<>>]
     ELSE [matched |-> TRUE,
           group |-> SubSeq(noteContent, open + 1, close - 1)]

\* noteContent.replace(/<[^>]*>/g, "")
StripTags(noteContent) == SelectSeq(noteContent, LAMBDA e : e \notin TagTokens)

\* JavaScript `x || null` on a string
OrNull(s) == IF s = <<>> THEN Null ELSE s

\* JavaScript truthiness of a string-or-null value
Truthy(v) == v # Null /\ v # <<>>

\* findTableNote, the body of `if (hasTableTag)`: what the first tagged note yields
TableNoteText(note) ==
  Then(rawMatch(note.content),
       LAMBDA m : IF m.matched /\ m.group # <<>>
                  THEN Then(UnescapeRaw(m.group), LAMBDA raw : OrNull(raw))
                  ELSE Then(Trim(StripTags(note.content)),
                            LAMBDA textContent : OrNull(textContent)))

\* findTableNote over the child notes of an item, in getNotes() order: the
\* first note carrying the table tag decides, later notes are not looked at
RECURSIVE findTableNote(_)
findTableNote(noteList) ==
  IF noteList = <<>> THEN Null
  ELSE IF TABLE_NOTE_TAG \in noteList[1].tags
       THEN TableNoteText(noteList[1])
       ELSE findTableNote(Tail(noteList))

(***************************************************************************)
(* The item store and the programs                                         *)
(***************************************************************************)
\* the sources (parent items) of the library, by item id
Sources == {1, 2}

\* a child note that is no table note (no AI-Table tag)
PlainNote == [content |-> <<P_OPEN, "x", P_CLOSE>>, tags |-> {}]
\* a table note of the old format: the table tag, no hidden raw region
LegacyTableNote == [content |-> <<P_OPEN, "l", P_CLOSE>>, tags |-> {TABLE_NOTE_TAG}]
\* the child notes a source may have before the program runs
InitialNoteLists ==
  {<<>>, <<PlainNote>>, <<PlainNote, NewTableNote(<<"t">>)>>, <<LegacyTableNote>>}
\* the same for the sources of a scheduler run: no note, or a cached table
SchedNoteLists == {<<>>, <<PlainNote, NewTableNote(<<"t">>)>>}

\* the notes of a list that carry the table tag
TableNotes(noteList) ==
  {k \in 1..Len(noteList) : TABLE_NOTE_TAG \in noteList[k].tags}

\* a call of the cache interface made by a client
StoreOp(t) == [op |-> "store", text |-> t]
FindOp == [op |-> "find", text |-> <<>>]

VARIABLES
  notes,        \* item store: source -> its child notes, in getNotes() order
  notes0,       \* history: the item store before the program ran
  clients,      \* direct callers of findTableNote / saveTableNote (cache scenarios)
  runPc,        \* fillTablesInParallel: "off", "init", "running", "resolved"
  items,        \* fillTablesInParallel: the pairs list; items[i] is pair i's parentItem
  concurrency,  \* fillTablesInParallel: the concurrency argument
  queue,        \* fillTablesInParallel: pending pairs (indices into items)
  results,      \* fillTablesInParallel: the results Map, in insertion order
  completed,    \* fillTablesInParallel: the completed counter
  wk,           \* the spawned workers: position, task and locals of each
  progress,     \* the calls made to progressCallback, in order
  log,          \* history: per pair, what was done for it, in order
  tableResults, \* aggregateTableContents: the tableResults Map, in insertion order
  aggregated,   \* aggregateTableContents: its return value, once it has run
  itemPdfPairs, \* postProcessCitations: the parent items (creators, date, key)
  ixAt,         \* postProcessCitations: position of the index-building loops
  authorYearMap,\* postProcessCitations: the lookup table, in insertion order
  content,      \* postProcessCitations: the content argument
  result,       \* postProcessCitations: its return value, once it has returned
  reviewPc,     \* generateReview: the phase it is in
  trace,        \* history: the phase starts and ends of generateReview, in order
  review,       \* generateReview: the review note, the tags of the sources, the
                \* position of the tagging loop
  fill,         \* fillTableForSinglePDF: its position, arguments and calls
  ocr,          \* MineruClient.extractMarkdown: its position, locals and calls
  bar           \* generateReview: the percentages passed to its progressCallback

\* the variables of aggregation, citation resolution and generateReview
reviewVars == <<tableResults, aggregated, itemPdfPairs, ixAt, authorYearMap, content,
                result, reviewPc, trace, review>>

\* the variables of a single fillTableForSinglePDF, of the OCR client and of
\* the progress reports of generateReview
unitVars == <<fill, ocr, bar>>

vars == <<notes, notes0, clients, runPc, items, concurrency, queue, results, completed,
          wk, progress, log, reviewVars, unitVars>>

schedVars == <<runPc, items, concurrency, queue, results, completed, wk,
               progress, log>>

(***************************************************************************)
(* Cache scenarios: clients calling findTableNote and saveTableNote on     *)
(* source 1.  A client runs its calls one after the other (it awaits each  *)
(* call); different clients interleave at the awaits.                      *)
(***************************************************************************)
TheSource == CHOOSE s \in Sources : \A o \in Sources : s <= o

NewClient(prog) ==
  [pc |-> "ready", prog |-> prog, at |-> 1, existingContent |-> Null,
   found |-> Null]

\* store(t) then find
RoundTripProgs == {<<StoreOp(t), FindOp>> : t \in AllTexts}
\* store(t1), then store(t2), then find
TwoStoreProgs ==
  {<<StoreOp(t1), StoreOp(t2), FindOp>> : t1 \in SampleTexts, t2 \in SampleTexts}
\* one store
OneStoreProgs == {<<StoreOp(t)>> : t \in SampleTexts}

\* no aggregation, no citation resolution and no generateReview under way
\* the value of a variable that holds a function's return value, before the
\* function has returned
NotRun == <<>>

AggregationOff ==
  /\ tableResults = <<>>
  /\ aggregated = NotRun

CitationsOff ==
  /\ ixAt = <<0, 0>>
  /\ authorYearMap = <<>>
  /\ content = <<>>
  /\ result = NotRun

GenerateReviewOff ==
  /\ reviewPc = "off"
  /\ trace = <<>>
  /\ review = [note |-> NotRun, tags |-> {}, saved |-> {}, tags0 |-> {}, tagAt |-> 0,
               returned |-> NotRun, error |-> NotRun]

\* no fillTableForSinglePDF and no OCR extraction is followed step by step
UnitsOff ==
  /\ fill = [pc |-> "off"]
  /\ ocr = [pc |-> "off"]
  /\ bar = [pc |-> "off"]

ReviewOff ==
  /\ itemPdfPairs = <<>>
  /\ AggregationOff
  /\ CitationsOff
  /\ GenerateReviewOff

SchedulerOff ==
  /\ runPc = "off"
  /\ items = <<>>
  /\ concurrency = 0
  /\ queue = <<>>
  /\ results = <<>>
  /\ completed = 0
  /\ wk = <<>>
  /\ progress = <<>>
  /\ log = <<>>

CacheInit ==
  /\ UnitsOff
  /\ \E nl \in InitialNoteLists :
       notes = [s \in Sources |-> IF s = TheSource THEN nl ELSE <<>>]
  /\ notes0 = notes
  /\ \/ \E p \in RoundTripProgs \cup TwoStoreProgs : clients = <<NewClient(p)>>
     \/ \E n \in 2..MaxClients : \E ps \in [1..n -> OneStoreProgs] :
          clients = [c \in 1..n |-> NewClient(ps[c])]
  /\ SchedulerOff
  /\ ReviewOff

CurrentOp(c) == clients[c].prog[clients[c].at]

\* the client calls findTableNote: getNotes() is read when the call starts
ClientFindCall(c) ==
  /\ clients[c].pc = "ready"
  /\ clients[c].at <= Len(clients[c].prog)
  /\ CurrentOp(c).op = "find"
  /\ clients' = [clients EXCEPT ![c].pc = "find",
                                ![c].existingContent = findTableNote(notes[TheSource])]
  /\ UNCHANGED <<notes, notes0, reviewVars, unitVars, schedVars>>

\* findTableNote returns to the client
ClientFindReturn(c) ==
  /\ clients[c].pc = "find"
  /\ clients' = [clients EXCEPT ![c].pc = "ready", ![c].at = @ + 1,
                                ![c].found = clients[c].existingContent]
  /\ UNCHANGED <<notes, notes0, reviewVars, unitVars, schedVars>>

\* the client calls saveTableNote, which first calls findTableNote
ClientSaveCall(c) ==
  /\ clients[c].pc = "ready"
  /\ clients[c].at <= Len(clients[c].prog)
  /\ CurrentOp(c).op = "store"
  /\ clients' = [clients EXCEPT ![c].pc = "saveFind",
                                ![c].existingContent = findTableNote(notes[TheSource])]
  /\ UNCHANGED <<notes, notes0, reviewVars, unitVars, schedVars>>

\* saveTableNote after `await this.findTableNote(item)`: return the existing
\* note, or build the new note and start note.saveTx()
ClientSaveAfterFind(c) ==
  /\ clients[c].pc = "saveFind"
  /\ IF Truthy(clients[c].existingContent)
     THEN clients' = [clients EXCEPT ![c].pc = "ready", ![c].at = @ + 1]
     ELSE clients' = [clients EXCEPT ![c].pc = "saveTx"]
  /\ UNCHANGED <<notes, notes0, reviewVars, unitVars, schedVars>>

\* note.saveTx() persists the new note as a child of the source
ClientSaveTxCommit(c) ==
  /\ clients[c].pc = "saveTx"
  /\ notes' = [notes EXCEPT ![TheSource] = Append(@, NewTableNote(CurrentOp(c).text))]
  /\ clients' = [clients EXCEPT ![c].pc = "saveTxDone"]
  /\ UNCHANGED <<notes0, reviewVars, unitVars, schedVars>>

\* saveTableNote returns the new note
ClientSaveReturn(c) ==
  /\ clients[c].pc = "saveTxDone"
  /\ clients' = [clients EXCEPT ![c].pc = "ready", ![c].at = @ + 1]
  /\ UNCHANGED <<notes, notes0, reviewVars, unitVars, schedVars>>

CacheNext ==
  \/ \E c \in DOMAIN clients : ClientFindCall(c)
  \/ \E c \in DOMAIN clients : ClientFindReturn(c)
  \/ \E c \in DOMAIN clients : ClientSaveCall(c)
  \/ \E c \in DOMAIN clients : ClientSaveAfterFind(c)
  \/ \E c \in DOMAIN clients : ClientSaveTxCommit(c)
  \/ \E c \in DOMAIN clients : ClientSaveReturn(c)

CacheSpec == CacheInit /\ [][CacheNext]_vars

\* every call of every client has returned
AllCallsReturned ==
  \A c \in DOMAIN clients :
     clients[c].pc = "ready" /\ clients[c].at > Len(clients[c].prog)

\* the source had no cached table when the clients started: no stored note
\* makes findTableNote return a text before the first store
NoCachedTable(nl) == findTableNote(nl) = Null

(***************************************************************************)
(* fillTablesInParallel: the bounded worker pool                           *)
(***************************************************************************)
total == Len(items)

\* the table texts the summarization collaborator may return for a fill
ExtractTexts == {<<"x">>}
\* replies of the summarization collaborator: a text, or a failure
LlmReplies ==
  {[ok |-> TRUE, text |-> t] : t \in ExtractTexts} \cup {[ok |-> FALSE, text |-> <<>>]}

\* error messages, each kept as one element
\* `PDF 附件无文件路径: ${pdfAttachment.id}` ("the PDF attachment has no file path")
ErrNoFilePath == <<"no file path">>
ErrExtractText == <<"extractTextFromItem failed">>
ErrLlm == <<"generateSummaryWithRetry failed">>
ErrSaveTx == <<"saveTx failed">>

\* a catch block that drops the error message
PlaceholderWithoutMessage(message) == <<"(fill failed: ", ")">>

\* worker, catch block: `(填表失败: ${error.message})` ("fill failed: <message>"),
\* the fixed prefix kept as one element
Placeholder(message) == <<"(fill failed: ">> \o message \o <<")">>
IsPlaceholder(v) == v # <<>> /\ v[1] = "(fill failed: "

\* fillTableForSinglePDF, given what its collaborators answer: whether the
\* attachment has a file path, whether IOUtils.read succeeds, whether the text
\* fallback succeeds, and the reply of the summarization collaborator
fillTableForSinglePDF(filePath, readOk, textOk, llm) ==
  IF ~filePath
  THEN [ok |-> FALSE, value |-> ErrNoFilePath, calls |-> <<>>]
  ELSE IF ~readOk /\ ~textOk
  THEN [ok |-> FALSE, value |-> ErrExtractText, calls |-> <<"extractText">>]
  ELSE LET before == IF readOk THEN <<>> ELSE <<"extractText">>
           call == IF readOk THEN "generate(binary)" ELSE "generate(text)"
       IN IF llm.ok
          THEN [ok |-> TRUE, value |-> llm.text, calls |-> Append(before, call)]
          ELSE [ok |-> FALSE, value |-> ErrLlm, calls |-> Append(before, call)]

\* what `await this.fillTableForSinglePDF(...)` may give the worker: a table,
\* or one of the errors
FillOutcomes ==
  {[ok |-> r.ok, value |-> r.value] :
     r \in {fillTableForSinglePDF(filePath, readOk, textOk, llm) :
              filePath \in BOOLEAN, readOk \in BOOLEAN, textOk \in BOOLEAN,
              llm \in LlmReplies}}

\* findTableNote with its try/catch: a failure while reading the store is
\* swallowed and reported as "no table note"
FindWithCatch(noteList, storeFails) ==
  IF storeFails THEN Null ELSE findTableNote(noteList)

\* Map.prototype.set on the insertion-ordered results map
MapHas(m, k) == \E n \in 1..Len(m) : m[n].key = k
MapGet(m, k) == m[CHOOSE n \in 1..Len(m) : m[n].key = k].value
\* a map that keeps one entry per write
MapAppend(m, k, v) == Append(m, [key |-> k, value |-> v])
MapSet(m, k, v) ==
  IF MapHas(m, k)
  THEN [n \in 1..Len(m) |-> IF m[n].key = k THEN [key |-> k, value |-> v] ELSE m[n]]
  ELSE Append(m, [key |-> k, value |-> v])

\* history events of a pair
Ev(e, v) == [ev |-> e, val |-> v]
EvCount(i, e) == Cardinality({n \in 1..Len(log[i]) : log[i][n].ev = e})
EvIndex(i, e) == IF \E n \in 1..Len(log[i]) : log[i][n].ev = e
                 THEN CHOOSE n \in 1..Len(log[i]) :
                        /\ log[i][n].ev = e
                        /\ \A k \in 1..(n - 1) : log[i][k].ev # e
                 ELSE 0
EvVal(i, e) == log[i][EvIndex(i, e)].val

\* reading the head of the queue without removing it
QueuePeek(q) == [task |-> Head(q), rest |-> q]

\* queue.shift()
QueueShift(q) == [task |-> Head(q), rest |-> Tail(q)]

\* a counter advanced twice per pair
CompletedPlusTwo(c) == c + 2

\* completed++
NextCompleted(c) == c + 1

\* a pool sized by the preference alone
ConcurrencyUnclamped(conc, tot) == conc

\* Math.min(concurrency, total)
effectiveConcurrency(conc, tot) == Min(conc, tot)

\* a worker that ignores the cached table
CacheNeverHit(existing) == FALSE

\* worker: `if (existing)`
CacheHit(existing) == Truthy(existing)

\* Promise.race in place of Promise.all
SomeWorkerExited == \E w \in DOMAIN wk : wk[w].pc = "exited"

\* Promise.all over the workers: every worker's loop has exited
AllWorkersExited == \A w \in DOMAIN wk : wk[w].pc = "exited"

\* the events of completing a pair, in the order of the code: results.set,
\* then completed++ and progressCallback
CompletionEvents(value) == <<Ev("record", value), Ev("progress", <<>>)>>

\* a worker that waits on the empty queue instead of returning
WaitingWorker == [pc |-> "waiting", task |-> 0, existing |-> Null, table |-> <<>>]

\* a worker whose loop has ended (`while (queue.length > 0)` false)
IdleWorker == [pc |-> "exited", task |-> 0, existing |-> Null, table |-> <<>>]

\* worker: `while (queue.length > 0) { task = queue.shift(); existing = await
\* this.findTableNote(task.parentItem)`: up to the first suspension.  st holds
\* queue, wk and log; getNotes() is read when findTableNote is called.
EnterLoop(st, w, storeFails) ==
  IF Len(st.queue) > 0
  THEN LET sh == QueueShift(st.queue)
           j == sh.task
       IN [queue |-> sh.rest,
           wk |-> [st.wk EXCEPT ![w] =
                    [pc |-> "find", task |-> j,
                     existing |-> FindWithCatch(notes[items[j]], storeFails),
                     table |-> <<>>]],
           log |-> [st.log EXCEPT ![j] =
                     @ \o <<Ev("pop", <<>>)>>
                       \o (IF storeFails THEN <<Ev("findFailed", <<>>)>> ELSE <<>>)]]
  ELSE [st EXCEPT !.wk[w] = IdleWorker]

\* Array.from({length: effectiveConcurrency}, () => worker()): the workers are
\* started one after the other, each running up to its first suspension
RECURSIVE SpawnWorkers(_, _, _, _)
SpawnWorkers(st, w, n, fails) ==
  IF w > n THEN st
  ELSE CHOOSE r \in {SpawnWorkers(next, w + 1, n, fails) :
                       next \in {EnterLoop(st, w, fails[w])}} : TRUE

SchedInit ==
  /\ UnitsOff
  /\ notes \in [Sources -> SchedNoteLists]
  /\ notes0 = notes
  /\ clients = <<>>
  /\ runPc = "init"
  /\ items \in BoundedSeq(Sources, MaxPairs)
  /\ concurrency \in 1..MaxConcurrency
  /\ queue = <<>>
  /\ results = <<>>
  /\ completed = 0
  /\ wk = <<>>
  /\ progress = <<>>
  /\ log = [i \in 1..Len(items) |-> <<>>]
  /\ ReviewOff

\* fillTablesInParallel up to `await Promise.all(...)`
Start ==
  /\ runPc = "init"
  /\ LET n == effectiveConcurrency(concurrency, total)
     IN \E fails \in [1..n -> BOOLEAN] :
          \E st \in {SpawnWorkers([queue |-> [i \in 1..total |-> i],
                                   wk |-> [w \in 1..n |-> IdleWorker],
                                   log |-> log],
                                  1, n, fails)} :
             /\ queue' = st.queue
             /\ wk' = st.wk
             /\ log' = st.log
  /\ runPc' = "running"
  /\ UNCHANGED <<notes, notes0, reviewVars, unitVars, clients, items, concurrency, results, completed,
                 progress>>

\* worker, from results.set for the current task to the next suspension:
\* results.set; completed++; progressCallback(completed, total); loop test;
\* next shift and cache check, or exit.  evs are the events that led here.
Complete(w, value, evs, storeFails) ==
  LET i == wk[w].task
  IN \E st \in {EnterLoop([queue |-> queue, wk |-> wk,
                           log |-> [log EXCEPT ![i] =
                                      @ \o evs \o CompletionEvents(value)]],
                          w, storeFails)} :
       /\ results' = MapSet(results, items[i], value)
       /\ completed' = NextCompleted(completed)
       /\ progress' = Append(progress,
                             [done |-> NextCompleted(completed), total |-> total])
       /\ queue' = st.queue
       /\ wk' = st.wk
       /\ log' = st.log

\* worker resumes from `await this.findTableNote(task.parentItem)`
WorkerAfterFind(w) ==
  /\ runPc = "running"
  /\ wk[w].pc = "find"
  /\ IF CacheHit(wk[w].existing)
     THEN \E storeFails \in BOOLEAN :
            Complete(w, wk[w].existing, <<Ev("find", wk[w].existing)>>, storeFails)
     ELSE /\ wk' = [wk EXCEPT ![w].pc = "fill"]
          /\ log' = [log EXCEPT ![wk[w].task] =
                       @ \o <<Ev("find", wk[w].existing), Ev("extract", <<>>)>>]
          /\ UNCHANGED <<queue, results, completed, progress>>
  /\ UNCHANGED <<notes, notes0, reviewVars, unitVars, clients, runPc, items, concurrency>>

\* a worker that persists the placeholder of a failed fill as a table note
WorkerCachesFailure(w) ==
  /\ runPc = "running"
  /\ wk[w].pc = "fill"
  /\ \E r \in FillOutcomes, storeFails \in BOOLEAN :
       LET i == wk[w].task
       IN IF r.ok
          THEN /\ wk' = [wk EXCEPT ![w].pc = "saveFind", ![w].table = r.value,
                                   ![w].existing =
                                      FindWithCatch(notes[items[i]], storeFails)]
               /\ log' = [log EXCEPT ![i] =
                            @ \o <<Ev("extracted", r.value), Ev("store", <<>>)>>]
               /\ UNCHANGED <<notes, queue, results, completed, progress>>
          ELSE /\ notes' = [notes EXCEPT ![items[i]] =
                              Append(@, NewTableNote(Placeholder(r.value)))]
               /\ Complete(w, Placeholder(r.value), <<Ev("error", r.value)>>, storeFails)
  /\ UNCHANGED <<notes0, reviewVars, unitVars, clients, runPc, items, concurrency>>

\* worker resumes from `await this.fillTableForSinglePDF(...)`: with a table it
\* calls saveTableNote, which calls findTableNote; with an error it records
\* the placeholder
WorkerAfterFill(w) ==
  /\ runPc = "running"
  /\ wk[w].pc = "fill"
  /\ \E r \in FillOutcomes, storeFails \in BOOLEAN :
       LET i == wk[w].task
       IN IF r.ok
          THEN /\ wk' = [wk EXCEPT ![w].pc = "saveFind", ![w].table = r.value,
                                   ![w].existing =
                                      FindWithCatch(notes[items[i]], storeFails)]
               /\ log' = [log EXCEPT ![i] =
                            @ \o <<Ev("extracted", r.value), Ev("store", <<>>)>>]
               /\ UNCHANGED <<queue, results, completed, progress>>
          ELSE Complete(w, Placeholder(r.value), <<Ev("error", r.value)>>, storeFails)
  /\ UNCHANGED <<notes, notes0, reviewVars, unitVars, clients, runPc, items, concurrency>>

\* saveTableNote resumes from `await this.findTableNote(item)`: it returns the
\* existing note (the worker then completes the pair), or builds the new note
\* and starts note.saveTx()
WorkerSaveAfterFind(w) ==
  /\ runPc = "running"
  /\ wk[w].pc = "saveFind"
  /\ IF Truthy(wk[w].existing)
     THEN \E storeFails \in BOOLEAN :
            Complete(w, wk[w].table, <<Ev("stored", <<>>)>>, storeFails)
     ELSE /\ wk' = [wk EXCEPT ![w].pc = "saveTx"]
          /\ UNCHANGED <<queue, results, completed, progress, log>>
  /\ UNCHANGED <<notes, notes0, reviewVars, unitVars, clients, runPc, items, concurrency>>

\* note.saveTx() persists the new table note as a child of the source
WorkerSaveTxCommit(w) ==
  /\ runPc = "running"
  /\ wk[w].pc = "saveTx"
  /\ notes' = [notes EXCEPT ![items[wk[w].task]] = Append(@, NewTableNote(wk[w].table))]
  /\ wk' = [wk EXCEPT ![w].pc = "saveTxDone"]
  /\ UNCHANGED <<notes0, reviewVars, unitVars, clients, runPc, items, concurrency, queue, results,
                 completed, progress, log>>

\* note.saveTx() fails: nothing is persisted, the worker's catch block runs
WorkerSaveTxFails(w) ==
  /\ runPc = "running"
  /\ wk[w].pc = "saveTx"
  /\ \E storeFails \in BOOLEAN :
       Complete(w, Placeholder(ErrSaveTx), <<Ev("error", ErrSaveTx)>>, storeFails)
  /\ UNCHANGED <<notes, notes0, reviewVars, unitVars, clients, runPc, items, concurrency>>

\* the worker resumes from `await this.saveTableNote(...)` with the new note
WorkerAfterSave(w) ==
  /\ runPc = "running"
  /\ wk[w].pc = "saveTxDone"
  /\ \E storeFails \in BOOLEAN :
       Complete(w, wk[w].table, <<Ev("stored", <<>>)>>, storeFails)
  /\ UNCHANGED <<notes, notes0, reviewVars, unitVars, clients, runPc, items, concurrency>>

\* `await Promise.all(...)` resumes and fillTablesInParallel returns results
Resolve ==
  /\ runPc = "running"
  /\ AllWorkersExited
  /\ runPc' = "resolved"
  /\ UNCHANGED <<notes, notes0, reviewVars, unitVars, clients, items, concurrency, queue, results,
                 completed, wk, progress, log>>

Next ==
  \/ Start
  \/ \E w \in DOMAIN wk : WorkerAfterFind(w)
  \/ \E w \in DOMAIN wk : WorkerAfterFill(w)
  \/ \E w \in DOMAIN wk : WorkerSaveAfterFind(w)
  \/ \E w \in DOMAIN wk : WorkerSaveTxCommit(w)
  \/ \E w \in DOMAIN wk : WorkerSaveTxFails(w)
  \/ \E w \in DOMAIN wk : WorkerAfterSave(w)
  \/ Resolve

Spec == SchedInit /\ [][Next]_vars

\* every call to a collaborator eventually returns or fails, and the event
\* loop runs a continuation that is ready: the run does not stop while a step
\* is possible
FairSpec == Spec /\ WF_vars(Next)

\* a text that findTableNote returns unchanged from the note saveTableNote
\* builds for it
RoundTrips(t) == findTableNote(<<NewTableNote(t)>>) = t

\* C1 (at-most-one record): once N >= 2 concurrent saveTableNote calls for one
\* source have all returned, exactly one note with the table tag is persisted
\* for the source.  Stated for stored texts that findTableNote returns
\* unchanged, so that only the interleaving of the callers decides it.
C1_OneRecordAfterConcurrentStores ==
  (/\ Len(clients) >= 2
   /\ AllCallsReturned
   /\ \A c \in DOMAIN clients : RoundTrips(clients[c].prog[1].text))
  => Cardinality(TableNotes(notes[TheSource])) = 1

\* C2 (cache idempotence): for a source with no cached table and two different
\* texts t1, t2, store(t1) followed by store(t2) creates no second note,
\* leaves the first note unchanged, and find then returns t1.  Stated for a
\* non-empty t1.
C2_SecondStoreKeepsFirst ==
  \A c \in DOMAIN clients :
    (/\ clients[c].prog \in TwoStoreProgs
     /\ clients[c].prog[1].text # <<>>
     /\ clients[c].prog[1].text # clients[c].prog[2].text
     /\ NoCachedTable(notes0[TheSource])
     /\ AllCallsReturned)
    => /\ notes[TheSource]
            = Append(notes0[TheSource], NewTableNote(clients[c].prog[1].text))
       /\ clients[c].found = clients[c].prog[1].text

\* C3 (verbatim round-trip): for a source with no cached table and every table
\* text t, find after store(t) returns exactly t.  Stated for the non-empty
\* texts without leading or trailing whitespace, where trimming changes nothing.
C3_FindReturnsStoredText ==
  \A c \in DOMAIN clients :
    (/\ clients[c].prog \in RoundTripProgs
     /\ clients[c].prog[1].text # <<>>
     /\ Trim(clients[c].prog[1].text) = clients[c].prog[1].text
     /\ NoCachedTable(notes0[TheSource])
     /\ AllCallsReturned)
    => clients[c].found = clients[c].prog[1].text

(***************************************************************************)
(* Properties of fillTablesInParallel                                      *)
(***************************************************************************)
Pairs == 1..Len(items)
EvHas(i, e) == \E n \in 1..Len(log[i]) : log[i][n].ev = e
Popped(i) == EvHas(i, "pop")
Recorded(i) == EvHas(i, "record")
Failed(i) == EvHas(i, "error")
FindFailed(i) == EvHas(i, "findFailed")
Hit(i) == EvHas(i, "find") /\ Truthy(EvVal(i, "find"))
Missed(i) == EvHas(i, "find") /\ ~Truthy(EvVal(i, "find"))
\* pairs claimed from the queue and not yet counted as completed
InFlight == {i \in Pairs : Popped(i) /\ ~EvHas(i, "progress")}
Busy(w) == wk[w].pc \notin {"exited"}


IsPrefix(a, b) == Len(a) <= Len(b) /\ a = SubSeq(b, 1, Len(a))
\* the sequence of a pair's events, without the note of a swallowed store failure
EvNames(i) ==
  LET l == SelectSeq(log[i], LAMBDA e : e.ev # "findFailed")
  IN [n \in 1..Len(l) |-> l[n].ev]
HitPattern == <<"pop", "find", "record", "progress">>
MissPattern ==
  <<"pop", "find", "extract", "extracted", "store", "stored", "record", "progress">>
ExtractFailPattern == <<"pop", "find", "extract", "error", "record", "progress">>
StoreFailPattern ==
  <<"pop", "find", "extract", "extracted", "store", "error", "record", "progress">>
\* the message a placeholder string embeds
EmbeddedMessage(v) == SubSeq(v, 2, Len(v) - 1)
\* the values recorded for the pairs of source s
RecordedFor(s) == {EvVal(j, "record") : j \in {k \in Pairs : items[k] = s /\ Recorded(k)}}

\* C4 as claimed (placeholder isolation): whenever the cache check, the
\* extraction or the store of a pair fails, the value recorded for the pair is
\* a placeholder string.
C4_AnyFailureGivesPlaceholder ==
  \A i \in Pairs :
    (Recorded(i) /\ (FindFailed(i) \/ Failed(i))) => IsPlaceholder(EvVal(i, "record"))

\* C4 as amended: a failure of the extraction or of the store of a pair makes
\* the worker record for that pair a placeholder embedding the error message
\* and go on; every pair without such a failure gets its cached text (hit) or
\* its extracted text (miss), never a placeholder; a failure inside the cache
\* check is swallowed by findTableNote and the pair is handled as a miss; when
\* the run resolves every pair has a recorded value and the map holds, for each
\* source, a value recorded for one of its pairs.
C4_PlaceholderIsolation ==
  /\ \A i \in Pairs :
       /\ Failed(i) => Recorded(i)
       /\ Recorded(i) =>
            IF Failed(i)
            THEN /\ IsPlaceholder(EvVal(i, "record"))
                 /\ EmbeddedMessage(EvVal(i, "record")) = EvVal(i, "error")
            ELSE /\ ~IsPlaceholder(EvVal(i, "record"))
                 /\ EvVal(i, "record")
                      = IF Hit(i) THEN EvVal(i, "find") ELSE EvVal(i, "extracted")
       /\ FindFailed(i) => Missed(i) \/ EvCount(i, "find") = 0
  /\ runPc = "resolved" =>
       \A i \in Pairs :
          /\ Recorded(i)
          /\ MapHas(results, items[i])
          /\ MapGet(results, items[i]) \in RecordedFor(items[i])

\* a run has resolved in which one pair failed and a pair of another source
\* got its table
C4_Witness ==
  /\ runPc = "resolved"
  /\ \E i \in Pairs, j \in Pairs :
       /\ items[i] # items[j]
       /\ Failed(i) /\ MapGet(results, items[i]) = Placeholder(EvVal(i, "error"))
       /\ ~Failed(j) /\ ~IsPlaceholder(MapGet(results, items[j]))

\* C5 (progress monotonicity): the completed values passed to progressCallback
\* are exactly 1, 2, ..., in this order, each with total = |pairs|; the last
\* one at resolve is total; and a pair's callback comes after its results.set.
C5_ProgressCountsUp ==
  /\ Len(progress) <= Len(items)
  /\ \A k \in 1..Len(progress) :
       progress[k].done = k /\ progress[k].total = Len(items)
  /\ completed = Len(progress)
  /\ runPc = "resolved" => Len(progress) = Len(items)
  /\ \A i \in Pairs :
       EvCount(i, "progress") > 0 =>
         /\ EvCount(i, "progress") = 1
         /\ EvIndex(i, "record") \in 1..(EvIndex(i, "progress") - 1)

\* a run of two workers over two pairs has resolved, the callback called twice
C5_Witness ==
  /\ runPc = "resolved"
  /\ Len(wk) = 2
  /\ Len(items) = 2
  /\ Len(progress) = 2

\* the elements of a sequence
Range(q) == {q[k] : k \in 1..Len(q)}

\* C6 (exclusive pop): a pair is claimed at most once and recorded at most
\* once; two workers never hold the same pair; a pair is either still queued
\* (once) or claimed; when the run resolves every pair has been claimed once
\* and processed once.
C6_ExclusivePop ==
  /\ \A i \in Pairs : EvCount(i, "pop") <= 1 /\ EvCount(i, "record") <= 1
  /\ \A w1 \in DOMAIN wk, w2 \in DOMAIN wk :
       (w1 # w2 /\ Busy(w1) /\ Busy(w2)) => wk[w1].task # wk[w2].task
  /\ runPc = "running" =>
       /\ \A i \in Pairs : Popped(i) <=> i \notin Range(queue)
       /\ Cardinality(Range(queue)) = Len(queue)
  /\ runPc = "resolved" =>
       \A i \in Pairs : EvCount(i, "pop") = 1 /\ EvCount(i, "record") = 1

\* two workers hold different pairs at the same time
C6_Witness ==
  \E w1 \in DOMAIN wk, w2 \in DOMAIN wk :
     /\ w1 # w2
     /\ wk[w1].pc = "fill" /\ wk[w2].pc = "fill"
     /\ wk[w1].task # wk[w2].task

\* C7 (cache short-circuit): for a pair whose cache check returned a text,
\* neither the extractor nor the store is invoked and the recorded value is
\* the cached text; for a pair whose cache check returned absent, the steps
\* come in the order extract, store, record, the recorded value being the
\* extracted text (a failing step ends the sequence with the placeholder, C4).
C7_CacheShortCircuit ==
  \A i \in Pairs :
    /\ Hit(i) =>
         /\ IsPrefix(EvNames(i), HitPattern)
         /\ EvCount(i, "extract") = 0 /\ EvCount(i, "store") = 0
         /\ Recorded(i) => EvVal(i, "record") = EvVal(i, "find")
    /\ Missed(i) =>
         /\ \/ IsPrefix(EvNames(i), MissPattern)
            \/ IsPrefix(EvNames(i), ExtractFailPattern)
            \/ IsPrefix(EvNames(i), StoreFailPattern)
         /\ (Recorded(i) /\ ~Failed(i)) => EvVal(i, "record") = EvVal(i, "extracted")

\* a run has resolved with one pair served from the cache and another pair
\* extracted, stored and recorded
C7_Witness ==
  /\ runPc = "resolved"
  /\ \E i \in Pairs, j \in Pairs :
       /\ Hit(i) /\ EvNames(i) = HitPattern
       /\ Missed(j) /\ EvNames(j) = MissPattern

\* C8 (completion at resolve): when the run has resolved, every worker's loop
\* has exited, the queue is empty, no pair is in flight, completed = total and
\* the results map has an entry for the source of every pair.
C8_CompleteAtResolve ==
  runPc = "resolved" =>
    /\ \A w \in DOMAIN wk : wk[w].pc = "exited"
    /\ queue = <<>>
    /\ InFlight = {}
    /\ completed = Len(items)
    /\ \A i \in Pairs : MapHas(results, items[i])

\* a run of two workers over two sources has resolved
C8_Witness ==
  /\ runPc = "resolved"
  /\ Len(wk) = 2
  /\ Len(results) = 2

\* C9 (bounded concurrency): min(concurrency, |pairs|) workers are spawned,
\* and at most that many pairs are in flight.
C9_BoundedConcurrency ==
  /\ runPc # "init" => Len(wk) = Min(concurrency, Len(items))
  /\ Cardinality(InFlight) <= Min(concurrency, Len(items))
  /\ Cardinality({w \in DOMAIN wk : Busy(w)}) <= Min(concurrency, Len(items))

\* the pool is full (one worker, two pairs, one pair in flight and one queued)
\* -- the bound is reached below the number of pairs
C9_Witness ==
  /\ concurrency = 1
  /\ Len(items) = 2
  /\ Cardinality(InFlight) = 1
  /\ Len(queue) = 1

\* C10 (scheduler liveness): when every collaborator call returns or fails and
\* ready continuations are run, every run eventually resolves; and no step
\* resolves the run while a worker is still suspended in a call (the scheduler
\* has no timeout and no cancellation).
C10_EventuallyResolves ==
  /\ <>(runPc = "resolved")
  /\ [][(\E w \in DOMAIN wk : wk[w].pc # "exited") => runPc' # "resolved"]_vars

\* a run in which a store failed has resolved
C10_Witness ==
  /\ runPc = "resolved"
  /\ \E i \in Pairs : Failed(i) /\ EvVal(i, "error") = ErrSaveTx


(***************************************************************************)
(* aggregateTableContents                                                  *)
(*                                                                         *)
(* A string is the sequence of its lines (what split("\n") returns), a     *)
(* line a sequence of characters; the empty string is one empty line.      *)
(* Labels and the preamble are lines of whole tokens.                      *)
(***************************************************************************)
\* most tables in a tableResults map
MaxTables == 2

EmptyStr == <<<<>>>>
\* the string "\n"
NL == <<<<>>, <<>>>>
\* a + b on strings
Cat(a, b) == SubSeq(a, 1, Len(a) - 1) \o <<a[Len(a)] \o b[1]>> \o Tail(b)
\* `if (s)` on a string
StrTruthy(str) == str # EmptyStr
\* lines.join("\n")
JoinLines(ls) == IF ls = <<>> THEN EmptyStr ELSE ls
\* strs.join(sep)
RECURSIVE JoinStrs(_, _)
JoinStrs(strs, sep) ==
  IF strs = <<>> THEN EmptyStr
  ELSE IF Len(strs) = 1 THEN strs[1]
  ELSE Cat(strs[1], Cat(sep, JoinStrs(Tail(strs), sep)))

\* trimmed.startsWith("|")
StartsWithPipe(line) == line # <<>> /\ line[1] = "|"
\* /^\|[\s\-:|]+\|$/.test(trimmed)
IsSeparatorLine(line) ==
  /\ Len(line) >= 3
  /\ line[1] = "|"
  /\ line[Len(line)] = "|"
  /\ \A k \in 2..(Len(line) - 1) : line[k] \in Whitespace \cup {"-", ":", "|"}

\* a scan that starts past the header: every table line is a data row
NoSplitState == [headerLines |-> <<>>, dataLines |-> <<>>, nonTableLines |-> <<>>,
                 headerDone |-> TRUE]

\* splitTableHeaderAndRows: the locals before the loop
SplitState0 == [headerLines |-> <<>>, dataLines |-> <<>>, nonTableLines |-> <<>>,
                headerDone |-> FALSE]

\* splitTableHeaderAndRows: one iteration of `for (const line of lines)`
SplitLine(st, line) ==
  LET trimmed == Trim(line)
  IN IF trimmed = <<>> THEN st
     ELSE IF StartsWithPipe(trimmed)
     THEN IF ~st.headerDone
          THEN [st EXCEPT !.headerLines = Append(@, trimmed),
                          !.headerDone = IsSeparatorLine(trimmed)]
          ELSE [st EXCEPT !.dataLines = Append(@, trimmed)]
     ELSE [st EXCEPT !.nonTableLines = Append(@, trimmed)]

RECURSIVE SplitLoop(_, _)
SplitLoop(st, lines) ==
  IF lines = <<>> THEN st
  ELSE CHOOSE r \in {SplitLoop(next, Tail(lines)) :
                       next \in {SplitLine(st, Head(lines))}} : TRUE

splitTableHeaderAndRows(md) ==
  LET st == SplitLoop(SplitState0, md)
  IN [header |-> JoinLines(st.headerLines),
      dataRows |-> JoinLines(st.dataLines),
      nonTableContent |-> JoinLines(st.nonTableLines)]

\* digits, for /\d/
Digits == {"0", "1", "2", "3", "4", "5", "6", "7", "8", "9"}
\* length of a year, /\d{4}/
YearLen == 4
\* s.match(/(\d{4})/): the first run of four digits, or "" when there is none
FirstYear(s) ==
  LET starts == {i \in 1..(Len(s) - YearLen + 1) :
                   \A k \in i..(i + YearLen - 1) : s[k] \in Digits}
  IN IF starts = {} THEN <<>>
     ELSE LET i == CHOOSE m \in starts : \A o \in starts : m <= o
          IN SubSeq(s, i, i + YearLen - 1)

\* parts[parts.length - 1] of s.split(/\s+/), s trimmed: what follows the last
\* whitespace character
RECURSIVE LastWord(_)
LastWord(s) ==
  IF s = <<>> \/ s[Len(s)] \in Whitespace THEN <<>>
  ELSE LastWord(SubSeq(s, 1, Len(s) - 1)) \o <<s[Len(s)]>>

\* "未知" ("unknown"), one element
UNKNOWN == <<"unknown">>

\* extractAuthorSurname
extractAuthorSurname(item) ==
  IF item.creators = <<>> THEN UNKNOWN
  ELSE LET c == item.creators[1]
       IN IF c.lastName # <<>> THEN c.lastName
          ELSE IF c.name # <<>> THEN LastWord(Trim(c.name))
          ELSE UNKNOWN

\* extractYear
extractYear(item) ==
  IF FirstYear(item.date) # <<>> THEN FirstYear(item.date) ELSE UNKNOWN

\* longest title kept in a label
TitleLimit == 80
\* s.slice(0, n)
Slice(s, n) == SubSeq(s, 1, Min(Len(s), n))

\* itemMap.get(itemId): the last pair of the list with this parent id
ItemMapHas(pairs, itemId) == \E k \in 1..Len(pairs) : pairs[k].id = itemId
ItemMapGet(pairs, itemId) ==
  pairs[CHOOSE k \in 1..Len(pairs) :
          /\ pairs[k].id = itemId
          /\ \A j \in (k + 1)..Len(pairs) : pairs[j].id # itemId]

\* label: `> **文献 ${index}**: ${title} (${author}, ${year})`, or
\* `> **文献 ${index}**` for an id that is not in itemMap
Label(pairs, itemId, index) ==
  IF ItemMapHas(pairs, itemId)
  THEN LET parentItem == ItemMapGet(pairs, itemId)
       IN <<"> lit ", ToString(index), ": ">> \o Slice(parentItem.title, TitleLimit)
            \o <<" (">> \o extractAuthorSurname(parentItem)
            \o <<", ">> \o extractYear(parentItem) \o <<")">>
  ELSE <<"> lit ", ToString(index)>>

\* an entry that never falls back to the table text
DataRowsOnly(dataRows, tableContent) == dataRows

\* `if (dataRows) entry += dataRows else entry += tableContent`: what follows
\* the label and the free text in an entry
RowsOrRaw(dataRows, tableContent) ==
  IF StrTruthy(dataRows) THEN dataRows ELSE tableContent

\* one iteration of `for (const [itemId, tableContent] of tableResults)`
AggregateEntry(st, pairs, itemId, tableContent) ==
  LET sp == splitTableHeaderAndRows(tableContent)
      label == <<Label(pairs, itemId, st.index)>>
      withText == IF StrTruthy(sp.nonTableContent)
                  THEN Cat(label, Cat(NL, sp.nonTableContent))
                  ELSE label
      entry == Cat(withText, Cat(NL, RowsOrRaw(sp.dataRows, tableContent)))
  IN [globalHeader |-> IF ~StrTruthy(st.globalHeader) /\ StrTruthy(sp.header)
                       THEN sp.header ELSE st.globalHeader,
      parts |-> Append(st.parts, entry),
      index |-> st.index + 1]

RECURSIVE AggregateLoop(_, _, _)
AggregateLoop(st, pairs, entries) ==
  IF entries = <<>> THEN st
  ELSE CHOOSE r \in {AggregateLoop(next, pairs, Tail(entries)) :
                       next \in {AggregateEntry(st, pairs, Head(entries).key,
                                                Head(entries).value)}} : TRUE

\* "---"
RULE == <<"-", "-", "-">>
\* "\n\n---\n\n"
PartSeparator == <<<<>>, <<>>, RULE, <<>>, <<>>>>
\* "**表格结构定义（以下每篇文献的数据行均遵循此表头）：**", one element
PREAMBLE == <<"**table structure definition**">>

aggregateTableContents(tr, pairs) ==
  LET st == AggregateLoop([globalHeader |-> EmptyStr, parts |-> <<>>, index |-> 1],
                          pairs, tr)
      head == IF StrTruthy(st.globalHeader)
              THEN Cat(<<PREAMBLE>>,
                       Cat(<<<<>>, <<>>, <<>>>>, Cat(st.globalHeader, PartSeparator)))
              ELSE EmptyStr
  IN Cat(head, JoinStrs(st.parts, PartSeparator))

\* parent items: creators with a structured last name or a single-field name,
\* a date string, the item key and the title
Ab == <<"A", "b">>
Cd == <<"C", "d">>
CreatorAb == [lastName |-> Ab, name |-> <<>>]
CreatorFCd == [lastName |-> <<>>, name |-> <<"F", ".", " ", "C", "d">>]
ParentItem(id, creators, date) ==
  [id |-> id, key |-> <<"K", ToString(id)>>, title |-> <<"T", ToString(id)>>,
   creators |-> creators, date |-> date]
Date2014 == <<"2", "0", "1", "4">>

\* lines of a table text
HDR == <<"|", "h", "|">>
HDR2 == <<"|", "g", "|">>
SEP == <<"|", "-", "|">>
ROWA == <<"|", "a", "|">>
ROWB == <<"|", "b", "|">>
INDENTED_ROWA == <<" ", "|", "a", "|">>
FREE_TEXT == <<"x">>
BLANK == <<>>

\* how a table text starts: nothing, a header block, a header row without a
\* separator line, another header block
TableHeads == {<<>>, <<HDR, SEP>>, <<HDR>>, <<HDR2, SEP>>}
\* how it goes on
TableBodies ==
  {<<>>, <<ROWA>>, <<ROWA, ROWB>>, <<INDENTED_ROWA>>, <<FREE_TEXT>>,
   <<FREE_TEXT, ROWB>>, <<HDR, SEP, ROWB>>, <<BLANK, ROWA>>, <<ROWB, FREE_TEXT>>}
\* the table texts of a results map
TableTexts == {JoinLines(h \o b) : h \in TableHeads, b \in TableBodies}

\* tableResults maps: keys 1..n in insertion order
TableResultsMaps ==
  UNION {{[k \in 1..n |-> [key |-> k, value |-> ts[k]]] : ts \in [1..n -> TableTexts]} :
           n \in 0..MaxTables}

\* the itemPdfPairs argument of aggregateTableContents: absent or empty, one
\* pair, two pairs
AggregationPairs ==
  {<<>>,
   <<ParentItem(1, <<CreatorAb>>, Date2014)>>,
   <<ParentItem(2, <<CreatorFCd>>, <<>>), ParentItem(1, <<>>, Date2014)>>}

AggregateInit ==
  /\ UnitsOff
  /\ notes = [src \in Sources |-> <<>>]
  /\ notes0 = notes
  /\ clients = <<>>
  /\ SchedulerOff
  /\ tableResults \in TableResultsMaps
  /\ itemPdfPairs \in AggregationPairs
  /\ aggregated = NotRun
  /\ CitationsOff
  /\ GenerateReviewOff

\* a call of aggregateTableContents
Aggregate ==
  /\ aggregated = NotRun
  /\ aggregated' = aggregateTableContents(tableResults, itemPdfPairs)
  /\ UNCHANGED <<notes, notes0, clients, schedVars, unitVars, tableResults, itemPdfPairs, ixAt,
                 authorYearMap, content, result, reviewPc, trace,
                 review>>

AggregateNext == Aggregate

AggregateSpec == AggregateInit /\ [][AggregateNext]_vars

\* reading an aggregated document: its label lines and the block under each
IsLabelLine(line) == line # <<>> /\ line[1] = "> lit "
LabelPositions(out) == {i \in 1..Len(out) : IsLabelLine(out[i])}
NthLabel(out, k) ==
  CHOOSE i \in LabelPositions(out) :
    Cardinality({j \in LabelPositions(out) : j <= i}) = k
\* the lines under the k-th label, up to the separator before the next label
Block(out, k) ==
  LET from == NthLabel(out, k) + 1
      to == IF k < Cardinality(LabelPositions(out))
            THEN NthLabel(out, k + 1) - 4 ELSE Len(out)
  IN SubSeq(out, from, to)
\* where the lines hs occur in a row in out
Occurrences(out, hs) ==
  {i \in 1..(Len(out) - Len(hs) + 1) : SubSeq(out, i, i + Len(hs) - 1) = hs}
\* reading a table text: its non-empty lines, trimmed; those that start with a
\* pipe; the others
TrimmedLines(t) ==
  LET ls == [k \in 1..Len(t) |-> Trim(t[k])]
  IN SelectSeq(ls, LAMBDA l : l # <<>>)
TableLines(t) == SelectSeq(TrimmedLines(t), StartsWithPipe)
FreeLines(t) == SelectSeq(TrimmedLines(t), LAMBDA l : ~StartsWithPipe(l))
\* t is a table with header block hs (a header row and a separator line)
\* and at least one data row
IsTableWithHeader(t, hs) ==
  /\ Len(hs) = 2
  /\ ~IsSeparatorLine(hs[1])
  /\ IsSeparatorLine(hs[2])
  /\ Len(TableLines(t)) >= 3
  /\ SubSeq(TableLines(t), 1, 2) = hs
DataLines(t) == SubSeq(TableLines(t), 3, Len(TableLines(t)))
\* the results map holds n >= 1 tables that share the header block hs
SharedHeader(hs) ==
  /\ aggregated # NotRun
  /\ Len(tableResults) >= 1
  /\ \A k \in 1..Len(tableResults) : IsTableWithHeader(tableResults[k].value, hs)
\* one block per entry of the map, numbered in insertion order and labelled
\* with the entry's source
BlocksInInsertionOrder ==
  /\ Cardinality(LabelPositions(aggregated)) = Len(tableResults)
  /\ \A k \in 1..Len(tableResults) :
       LET line == aggregated[NthLabel(aggregated, k)]
       IN /\ line[2] = ToString(k)
          /\ line = Label(itemPdfPairs, tableResults[k].key, k)
HeaderBlocks == {<<HDR, SEP>>, <<HDR2, SEP>>}

C12_HeaderLinesNotInBlocks ==
  aggregated # NotRun =>
    /\ \A k \in 1..Len(tableResults) :
         LET header == splitTableHeaderAndRows(tableResults[k].value).header
         IN (/\ StrTruthy(header)
             /\ \A j \in 1..(k - 1) :
                  ~StrTruthy(splitTableHeaderAndRows(tableResults[j].value).header))
            => SubSeq(aggregated, 1, 2 + Len(header)) = <<PREAMBLE, <<>>>> \o header
    /\ \A k \in 1..Len(tableResults) :
         LET header == splitTableHeaderAndRows(tableResults[k].value).header
             block == Block(aggregated, k)
         IN StrTruthy(header) =>
              \A n \in 1..Len(block), h \in 1..Len(header) : Trim(block[n]) # header[h]

\* C13 (malformed-table fallback): for a table text in which no data rows are
\* detected, in particular one with no line starting with a pipe, the
\* source's block ends with the table text, unmodified; and every entry of
\* the results map has its block.
C13_RawTextFallback ==
  aggregated # NotRun =>
    /\ BlocksInInsertionOrder
    /\ \A k \in 1..Len(tableResults) :
         LET t == tableResults[k].value
             block == Block(aggregated, k)
         IN /\ TableLines(t) = <<>> =>
                 ~StrTruthy(splitTableHeaderAndRows(t).dataRows)
            /\ ~StrTruthy(splitTableHeaderAndRows(t).dataRows) =>
                 /\ Len(block) >= Len(t)
                 /\ SubSeq(block, Len(block) - Len(t) + 1, Len(block)) = t

\* a text without pipe syntax and a regular table have been aggregated
C13_Witness ==
  /\ aggregated # NotRun
  /\ Len(tableResults) = 2
  /\ tableResults[1].value = <<FREE_TEXT>>
  /\ tableResults[2].value = <<HDR, SEP, ROWA>>
  /\ Block(aggregated, 1) = <<FREE_TEXT, FREE_TEXT>>

(***************************************************************************)
(* postProcessCitations                                                    *)
(*                                                                         *)
(* The prose is a sequence of characters.  The fixed prefix of a link      *)
(* target, "zotero://select/library/items/", is one element: it holds no   *)
(* parenthesis, bracket, whitespace or capital letter.                     *)
(***************************************************************************)
\* most parent items in the itemPdfPairs list of a citation pass
MaxSources == 2

UpperLetters == {"A", "C", "E", "I", "L"}
LowerLetters == {"a", "b", "c", "d", "e", "i", "l", "m", "n", "t", "x"}
\* String.prototype.toLowerCase, character by character
LowerChar(ch) ==
  CASE ch = "A" -> "a" [] ch = "C" -> "c" [] ch = "E" -> "e" [] ch = "I" -> "i"
    [] ch = "L" -> "l" [] OTHER -> ch
ToLowerCase(str) == [k \in 1..Len(str) |-> LowerChar(str[k])]

\* more creators and dates
CreatorLowerAb == [lastName |-> <<"a", "b">>, name |-> <<>>]
CreatorBlankLastName == [lastName |-> <<" ">>, name |-> Cd]
CreatorNoName == [lastName |-> <<>>, name |-> <<>>]
CreatorCd == [lastName |-> <<" ", "C", "d">>, name |-> <<>>]
DateMay1999 == <<"5", "/", "1", "9", "9", "9">>
CreatorLists ==
  {<<>>, <<CreatorAb>>, <<CreatorFCd>>, <<CreatorLowerAb, CreatorAb>>,
   <<CreatorBlankLastName, CreatorFCd>>, <<CreatorNoName>>, <<CreatorAb, CreatorCd>>}
Dates == {<<>>, Date2014, DateMay1999}
\* the itemPdfPairs lists of a citation pass: item k has id k
IndexPairLists ==
  UNION {{[k \in 1..n |-> ParentItem(k, cs[k], ds[k])] :
            cs \in [1..n -> CreatorLists], ds \in [1..n -> Dates]} :
           n \in 0..MaxSources}

\* surname of a creator: lastName.trim(), or the last word of name
CreatorSurname(creator) ==
  IF creator.lastName # <<>> THEN Trim(creator.lastName)
  ELSE IF creator.name # <<>> THEN LastWord(Trim(creator.name))
  ELSE <<>>

\* `${surname.toLowerCase()}|${year}`
LookupKey(surname, year) == ToLowerCase(surname) \o <<"|">> \o year

\* `zotero://select/library/items/${itemKey}`
Uri(itemKey) == <<"zotero://select/library/items/">> \o itemKey

\* a table in which the last registration wins
RegisterLast(map, lookupKey, entry) == MapSet(map, lookupKey, entry)

\* `if (!authorYearMap.has(lookupKey)) authorYearMap.set(lookupKey, {...})`
Register(map, lookupKey, entry) ==
  IF MapHas(map, lookupKey) THEN map ELSE MapSet(map, lookupKey, entry)

\* the index loops are at parent item ixAt[1], creator ixAt[2]
IndexDone == ixAt[1] > Len(itemPdfPairs)
\* the position after creator j of parent item i
NextIndexPosition(i, j) ==
  IF j < Len(itemPdfPairs[i].creators) THEN <<i, j + 1>> ELSE <<i + 1, 1>>

\* `if (!year || creators.length === 0) continue`
IndexSkipItem ==
  /\ reviewPc = "off"
  /\ result = NotRun
  /\ ~IndexDone
  /\ LET parentItem == itemPdfPairs[ixAt[1]]
     IN FirstYear(parentItem.date) = <<>> \/ parentItem.creators = <<>>
  /\ ixAt' = <<ixAt[1] + 1, 1>>
  /\ UNCHANGED <<notes, notes0, clients, schedVars, unitVars, tableResults, aggregated,
                 itemPdfPairs, authorYearMap, content, result, reviewPc, trace,
                 review>>

\* one iteration of `for (const creator of creators)`
IndexCreator ==
  /\ reviewPc = "off"
  /\ result = NotRun
  /\ ~IndexDone
  /\ LET parentItem == itemPdfPairs[ixAt[1]]
         year == FirstYear(parentItem.date)
     IN /\ year # <<>>
        /\ parentItem.creators # <<>>
        /\ LET surname == CreatorSurname(parentItem.creators[ixAt[2]])
           IN authorYearMap' =
                IF surname = <<>> THEN authorYearMap
                ELSE Register(authorYearMap, LookupKey(surname, year),
                              [item |-> parentItem.id, key |-> parentItem.key,
                               uri |-> Uri(parentItem.key)])
  /\ ixAt' = NextIndexPosition(ixAt[1], ixAt[2])
  /\ UNCHANGED <<notes, notes0, clients, schedVars, unitVars, tableResults, aggregated,
                 itemPdfPairs, content, result, reviewPc, trace,
                 review>>

\* character classes of the patterns
Letters == UpperLetters \cup LowerLetters
\* [A-Za-z...\-']
NameChars == Letters \cup {"-", "'"}
\* \w, for \b
WordChars == Letters \cup Digits \cup {"_"}
\* s[i], or a value that is no character when i is outside s
CharAt(str, i) == IF i \in 1..Len(str) THEN str[i] ELSE "<none>"
\* the first position >= i of str that holds no whitespace (\s* from i)
RECURSIVE SkipSpaces(_, _)
SkipSpaces(str, i) ==
  IF CharAt(str, i) \in Whitespace THEN SkipSpaces(str, i + 1) ELSE i
\* the first position >= i of str that holds no name character
RECURSIVE SkipName(_, _)
SkipName(str, i) ==
  IF CharAt(str, i) \in NameChars THEN SkipName(str, i + 1) ELSE i
\* str has the characters of word at position i
HasAt(str, i, word) ==
  /\ i + Len(word) - 1 <= Len(str)
  /\ SubSeq(str, i, i + Len(word) - 1) = word
\* \d{4}[a-z]?\) at position k: the position of the closing parenthesis, or 0
YearEnd(str, k) ==
  IF \A d \in k..(k + YearLen - 1) : CharAt(str, d) \in Digits
  THEN LET p == k + YearLen
       IN IF CharAt(str, p) \in LowerLetters /\ CharAt(str, p + 1) = ")" THEN p + 1
          ELSE IF CharAt(str, p) = ")" THEN p
          ELSE 0
  ELSE 0

\* /\s+et\s+al\.?$/i on a whole string t
IsEtAlTail(t) ==
  LET u == ToLowerCase(t)
      e == SkipSpaces(u, 1)
      a == SkipSpaces(u, e + 2)
  IN /\ e > 1
     /\ HasAt(u, e, <<"e", "t">>)
     /\ a > e + 2
     /\ HasAt(u, a, <<"a", "l">>)
     /\ \/ a + 1 = Len(u)
        \/ a + 2 = Len(u) /\ u[a + 2] = "."
\* /\s+WORD\s+.+$/i on a whole string t
IsJoinerTail(t, word) ==
  LET u == ToLowerCase(t)
      w == SkipSpaces(u, 1)
      r == w + Len(word)
  IN /\ w > 1
     /\ HasAt(u, w, word)
     /\ CharAt(u, r) \in Whitespace
     /\ Len(u) >= r + 1
\* str.replace(/<tail pattern>$/, ""): str cut at the leftmost position from
\* which the rest matches
CutTail(str, IsTail(_)) ==
  LET starts == {q \in 1..Len(str) : IsTail(SubSeq(str, q, Len(str)))}
  IN IF starts = {} THEN str
     ELSE SubSeq(str, 1, (CHOOSE q \in starts : \A o \in starts : q <= o) - 1)
AND == <<"a", "n", "d">>
AMPERSAND == <<"&">>

\* the surname looked up for an author text: "et al.", "and X", "& X" cut
\* off, trimmed, the last word if there are several
SurnameOf(authorText) ==
  LET a == CutTail(authorText, IsEtAlTail)
      b == CutTail(a, LAMBDA t : IsJoinerTail(t, AND))
      c == CutTail(b, LAMBDA t : IsJoinerTail(t, AMPERSAND))
  IN LastWord(Trim(c))

\* the surname looked up for the author text of a narrative mention:
\* "et al." cut off, then the leftmost "and X" or "& X"
NarrativeSurnameOf(authorText) ==
  LET a == CutTail(authorText, IsEtAlTail)
      b == CutTail(a, LAMBDA t : IsJoinerTail(t, AND) \/ IsJoinerTail(t, AMPERSAND))
  IN LastWord(Trim(b))

\* shortest and longest run of [^()] before the comma of Pattern A
AuthorsMin == 2
AuthorsMax == 80
\* Pattern A at position i, /\(([^()]{2,80}?,\s*\d{4}[a-z]?)\)/: the lengths
\* n of the run before the comma for which the pattern matches
PatternARuns(str, i) ==
  {n \in AuthorsMin..Min(AuthorsMax, Len(str) - i) :
     /\ \A k \in (i + 1)..(i + n) : str[k] \notin {"(", ")"}
     /\ CharAt(str, i + n + 1) = ","
     /\ YearEnd(str, SkipSpaces(str, i + n + 2)) # 0}
\* the match of Pattern A at i (the lazy quantifier takes the shortest run):
\* its end, the inner text, the author part and the year
PatternAMatch(str, i) ==
  LET n == CHOOSE m \in PatternARuns(str, i) : \A o \in PatternARuns(str, i) : m <= o
      k == SkipSpaces(str, i + n + 2)
      end == YearEnd(str, k)
  IN [end |-> end,
      inner |-> SubSeq(str, i + 1, end - 1),
      authorPart |-> Trim(SubSeq(str, i + 1, i + n)),
      year |-> SubSeq(str, k, k + YearLen - 1)]
PatternAMatches(str, i) == CharAt(str, i) = "(" /\ PatternARuns(str, i) # {}

\* a callback that returns every match unchanged
KeepParenthetical(str, i, map) == SubSeq(str, i, PatternAMatch(str, i).end)

\* a callback that links the mention in narrative style, "[ Ab (2014) ](uri)"
NarrativeStyleLink(str, i, map) ==
  LET mt == PatternAMatch(str, i)
      lookupKey == LookupKey(SurnameOf(mt.authorPart), mt.year)
  IN IF MapHas(map, lookupKey)
     THEN <<"[", " ">> \o mt.authorPart \o <<" ", "(">> \o mt.year
            \o <<")", " ", "]", "(">> \o MapGet(map, lookupKey).uri \o <<")">>
     ELSE SubSeq(str, i, mt.end)

\* the callback of Pattern A: the link, or the match unchanged
PatternAReplacement(str, i, map) ==
  LET mt == PatternAMatch(str, i)
      lookupKey == LookupKey(SurnameOf(mt.authorPart), mt.year)
  IN IF MapHas(map, lookupKey)
     THEN <<"[", "(">> \o mt.inner \o <<")", "]", "(">> \o MapGet(map, lookupKey).uri
            \o <<")">>
     ELSE SubSeq(str, i, mt.end)

\* result.replace(<Pattern A>, callback) from position i on
RECURSIVE ReplacePatternA(_, _, _)
ReplacePatternA(str, i, map) ==
  IF i > Len(str) THEN <<>>
  ELSE IF PatternAMatches(str, i)
  THEN PatternAReplacement(str, i, map)
         \o ReplacePatternA(str, PatternAMatch(str, i).end + 1, map)
  ELSE <<str[i]>> \o ReplacePatternA(str, i + 1, map)

\* Pattern B, the optional group (?:\s+(?:et\s+al\.?|and|&)\s+[A-Za-z...\-']+)
\* at position e (after the first name): the position after it, or 0
JoinedNameEnd(str, e) ==
  LET w == SkipSpaces(str, e)
      afterEt == SkipSpaces(str, w + 2)
      afterWord ==
        IF /\ HasAt(str, w, <<"e", "t">>)
           /\ afterEt > w + 2
           /\ HasAt(str, afterEt, <<"a", "l">>)
        THEN IF CharAt(str, afterEt + 2) = "." THEN afterEt + 3 ELSE afterEt + 2
        ELSE IF HasAt(str, w, AND) THEN w + 3
        ELSE IF HasAt(str, w, AMPERSAND) THEN w + 1
        ELSE 0
      second == SkipSpaces(str, afterWord)
  IN IF w > e /\ afterWord # 0 /\ second > afterWord /\ SkipName(str, second) > second
     THEN SkipName(str, second)
     ELSE 0
\* \s+\((\d{4}[a-z]?)\)(?!\]) at position e: the position of the closing
\* parenthesis, or 0
NarrativeYearEnd(str, e) ==
  LET o == SkipSpaces(str, e)
      end == IF o > e /\ CharAt(str, o) = "(" THEN YearEnd(str, o + 1) ELSE 0
  IN IF end # 0 /\ CharAt(str, end + 1) # "]" THEN end ELSE 0
\* (?<!\[)\b([A-Z][A-Za-z...\-']+ at position i: the position after the name,
\* or 0
FirstNameEnd(str, i) ==
  IF /\ CharAt(str, i) \in UpperLetters
     /\ CharAt(str, i - 1) # "["
     /\ CharAt(str, i - 1) \notin WordChars
     /\ SkipName(str, i + 1) > i + 1
  THEN SkipName(str, i + 1) ELSE 0
\* the match of Pattern B at i: the end of the author text and of the match;
\* the group is tried first, then the first name alone
PatternBMatch(str, i) ==
  LET e == FirstNameEnd(str, i)
      g == IF e = 0 THEN 0 ELSE JoinedNameEnd(str, e)
      withGroup == IF g = 0 THEN 0 ELSE NarrativeYearEnd(str, g)
      alone == IF e = 0 THEN 0 ELSE NarrativeYearEnd(str, e)
  IN IF withGroup # 0 THEN [authorEnd |-> g - 1, end |-> withGroup]
     ELSE [authorEnd |-> e - 1, end |-> alone]
PatternBMatches(str, i) == PatternBMatch(str, i).end # 0

\* the callback of Pattern B: the link, or the match unchanged
PatternBReplacement(str, i, map) ==
  LET mt == PatternBMatch(str, i)
      authorText == SubSeq(str, i, mt.authorEnd)
      open == SkipSpaces(str, mt.authorEnd + 1)
      yearWithSuffix == SubSeq(str, open + 1, mt.end - 1)
      lookupKey ==
        LookupKey(NarrativeSurnameOf(authorText), Slice(yearWithSuffix, YearLen))
  IN IF MapHas(map, lookupKey)
     THEN <<"[">> \o authorText \o <<" ", "(">> \o yearWithSuffix \o <<")", "]", "(">>
            \o MapGet(map, lookupKey).uri \o <<")">>
     ELSE SubSeq(str, i, mt.end)

\* result.replace(<Pattern B>, callback) from position i on
RECURSIVE ReplacePatternB(_, _, _)
ReplacePatternB(str, i, map) ==
  IF i > Len(str) THEN <<>>
  ELSE IF PatternBMatches(str, i)
  THEN PatternBReplacement(str, i, map)
         \o ReplacePatternB(str, PatternBMatch(str, i).end + 1, map)
  ELSE <<str[i]>> \o ReplacePatternB(str, i + 1, map)

\* "[itemId:"
MARKER_OPEN == <<"[", "i", "t", "e", "m", "I", "d", ":">>
\* the first position >= i of str that holds no digit
RECURSIVE SkipDigits(_, _)
SkipDigits(str, i) ==
  IF CharAt(str, i) \in Digits THEN SkipDigits(str, i + 1) ELSE i
\* /\[itemId:\d+\]/ at position i: the position of the closing bracket, or 0
MarkerEnd(str, i) ==
  LET d == i + Len(MARKER_OPEN)
      e == SkipDigits(str, d)
  IN IF HasAt(str, i, MARKER_OPEN) /\ e > d /\ CharAt(str, e) = "]" THEN e ELSE 0
\* result.replace(/\[itemId:\d+\]/g, "") from position i on
RECURSIVE RemoveMarkers(_, _)
RemoveMarkers(str, i) ==
  IF i > Len(str) THEN <<>>
  ELSE IF MarkerEnd(str, i) # 0 THEN RemoveMarkers(str, MarkerEnd(str, i) + 1)
  ELSE <<str[i]>> \o RemoveMarkers(str, i + 1)

\* an empty table that is not returned early
NeverEmpty(map) == FALSE

\* `authorYearMap.size === 0`
IsEmptyMap(map) == map = <<>>

\* postProcessCitations after the index has been built
ResolveCitations(text, map) ==
  IF IsEmptyMap(map) THEN text
  ELSE LET a == ReplacePatternA(text, 1, map)
       IN Then(Then(a, LAMBDA x : ReplacePatternB(x, 1, map)),
               LAMBDA y : RemoveMarkers(y, 1))

\* pieces of prose: parenthetical and narrative mentions, existing links,
\* source-index markers, plain text
PAREN_AB == <<"(", "A", "b", ",", " ", "2", "0", "1", "4", ")">>
PAREN_CD == <<"(", "C", "d", ",", " ", "1", "9", "9", "9", ")">>
PAREN_ET_AL ==
  <<"(", "A", "b", " ", "e", "t", " ", "a", "l",
    ".", ",", " ", "2", "0", "1", "4", "a", ")">>
PAREN_AND ==
  <<"(", "A", "b", " ", "a", "n", "d", " ",
    "C", "d", ",", " ", "2", "0", "1", "4", ")">>
PAREN_TWO ==
  <<"(", "C", "d", ",", " ", "A", "b",
    ",", " ", "2", "0", "1", "4", ")">>
NARR_AB == <<"A", "b", " ", "(", "2", "0", "1", "4", ")">>
NARR_ET_AL ==
  <<"A", "b", " ", "e", "t", " ", "a", "l",
    ".", " ", "(", "2", "0", "1", "4", ")">>
NARR_AND ==
  <<"A", "b", " ", "a", "n", "d", " ", "C",
    "d", " ", "(", "2", "0", "1", "4", ")">>
LINKED_AB ==
  <<"[", "A", "b", " ", "(", "2", "0",
    "1", "4", ")", "]", "(", "u", ")">>
IN_LINK_TEXT ==
  <<"[", "x", " ", "A", "b", " ", "(", "2", "0",
    "1", "4", ")", " ", "x", "]", "(", "u", ")">>
MARKER == <<"[", "i", "t", "e", "m", "I", "d", ":", "1", "]">>
NESTED_MARKER ==
  <<"[", "i", "t", "e", "m", "I", "d", ":", "[", "i",
    "t", "e", "m", "I", "d", ":", "1", "]", "2", "]">>
PLAIN == <<" ", "x", " ">>
ProsePieces ==
  {PAREN_AB, PAREN_CD, PAREN_ET_AL, PAREN_AND, PAREN_TWO,
   NARR_AB, NARR_ET_AL, NARR_AND, LINKED_AB, IN_LINK_TEXT,
   MARKER, NESTED_MARKER, PLAIN}
\* most pieces in a prose
MaxPieces == 2
RECURSIVE Flatten(_)
Flatten(pieces) == IF pieces = <<>> THEN <<>> ELSE Head(pieces) \o Flatten(Tail(pieces))
Proses == {Flatten(ps) : ps \in BoundedSeq(ProsePieces, MaxPieces)}

\* the itemPdfPairs lists the proses are resolved against: no pair, a parent
\* item without creators, one indexed item, two indexed items
ProsePairLists ==
  {<<>>,
   <<ParentItem(1, <<>>, Date2014)>>,
   <<ParentItem(1, <<CreatorAb>>, Date2014)>>,
   <<ParentItem(1, <<CreatorFCd>>, DateMay1999),
     ParentItem(2, <<CreatorAb, CreatorCd>>, Date2014)>>}

\* the return value v of a function that has returned
Returned(v) == <<v>>

CitationInit ==
  /\ UnitsOff
  /\ notes = [src \in Sources |-> <<>>]
  /\ notes0 = notes
  /\ clients = <<>>
  /\ SchedulerOff
  /\ AggregationOff
  /\ GenerateReviewOff
  /\ \/ itemPdfPairs \in IndexPairLists /\ content = PAREN_AB
     \/ itemPdfPairs \in ProsePairLists /\ content \in Proses
  /\ ixAt = <<1, 1>>
  /\ authorYearMap = <<>>
  /\ result = NotRun

\* postProcessCitations from `if (authorYearMap.size === 0)` to its return
ReturnResolved ==
  /\ reviewPc = "off"
  /\ result = NotRun
  /\ ixAt # <<0, 0>>
  /\ IndexDone
  /\ result' = Returned(ResolveCitations(content, authorYearMap))
  /\ UNCHANGED <<notes, notes0, clients, schedVars, unitVars, tableResults, aggregated,
                 itemPdfPairs, ixAt, authorYearMap, content, reviewPc, trace,
                 review>>

CitationNext ==
  \/ IndexSkipItem
  \/ IndexCreator
  \/ ReturnResolved

CitationSpec == CitationInit /\ [][CitationNext]_vars

\* ---------------------------------------------------------------------------
\* the citation index
\* ---------------------------------------------------------------------------

\* the keys parent item i can register: none without a year or without
\* creators, else one per creator that has a surname
KeysOf(i) ==
  LET parentItem == itemPdfPairs[i]
      year == FirstYear(parentItem.date)
  IN IF year = <<>> \/ parentItem.creators = <<>> THEN {}
     ELSE {LookupKey(CreatorSurname(c), year) :
             c \in {d \in Range(parentItem.creators) : CreatorSurname(d) # <<>>}}
\* the first parent item, in list order, that can register key k
FirstWith(k) ==
  CHOOSE i \in 1..Len(itemPdfPairs) :
    /\ k \in KeysOf(i)
    /\ \A o \in 1..Len(itemPdfPairs) : k \in KeysOf(o) => i <= o
IndexKeys(map) == {e.key : e \in Range(map)}
\* every key a parent item can register is in the table, with the first such
\* item, its key and its URI
IndexComplete(map) ==
  /\ IndexKeys(map) = UNION {KeysOf(i) : i \in 1..Len(itemPdfPairs)}
  /\ \A e \in Range(map) :
       LET parentItem == itemPdfPairs[FirstWith(e.key)]
       IN e.value = [item |-> parentItem.id, key |-> parentItem.key,
                     uri |-> Uri(parentItem.key)]
\* each key is held by one entry
KeysDistinct(map) ==
  \A a, b \in 1..Len(map) : map[a].key = map[b].key => a = b

\* C14 (first-seen-wins): every step of the index loops keeps each registered
\* key with the entry it has; once the loops are over, the keys of the table
\* are exactly those of the parent items that have a year and a creator with a
\* surname, each with the first such item in list order, so that an item
\* without year or without creators adds no key.
C14_FirstSeenWins ==
  [][/\ \A k \in IndexKeys(authorYearMap) :
          /\ MapHas(authorYearMap', k)
          /\ MapGet(authorYearMap', k) = MapGet(authorYearMap, k)
     /\ KeysDistinct(authorYearMap')
     /\ IndexDone' => IndexComplete(authorYearMap')]_vars

\* the loops are over two parent items that share one key and differ in
\* another
C14_Witness ==
  /\ IndexDone
  /\ result = NotRun
  /\ \E i, j \in 1..Len(itemPdfPairs) :
       /\ i < j
       /\ KeysOf(i) \cap KeysOf(j) # {}
       /\ KeysOf(i) # KeysOf(j)

\* ---------------------------------------------------------------------------
\* parenthetical mentions
\* ---------------------------------------------------------------------------

\* the positions from i on at which the scan finds a parenthetical mention
RECURSIVE ParenScan(_, _)
ParenScan(str, i) ==
  IF i > Len(str) THEN {}
  ELSE IF PatternAMatches(str, i)
  THEN {i} \cup ParenScan(str, PatternAMatch(str, i).end + 1)
  ELSE ParenScan(str, i + 1)
\* a Markdown link
LinkOf(text, uri) == <<"[">> \o text \o <<"]", "(">> \o uri \o <<")">>
\* the text up to the first comma
FirstOfList(str) ==
  LET commas == {k \in 1..Len(str) : str[k] = ","}
  IN IF commas = {} THEN str
     ELSE SubSeq(str, 1, (CHOOSE k \in commas : \A o \in commas : k <= o) - 1)
\* the surname of the first author of an author list
FirstAuthorSurname(authorPart) == SurnameOf(FirstOfList(authorPart))
\* str with each parenthetical mention whose key is in map replaced by a link
\* that wraps it, and nothing else changed; the key is made of Surname(author
\* part) and the year
LinkParentheticals(str, map, Surname(_)) ==
  LET starts == ParenScan(str, 1)
      out(i) ==
        IF i \in starts
        THEN LET mt == PatternAMatch(str, i)
                 k == LookupKey(Surname(mt.authorPart), mt.year)
             IN IF MapHas(map, k)
                THEN LinkOf(SubSeq(str, i, mt.end), MapGet(map, k).uri)
                ELSE SubSeq(str, i, mt.end)
        ELSE IF \E b \in starts : b < i /\ i <= PatternAMatch(str, b).end
        THEN <<>>
        ELSE <<str[i]>>
  IN Flatten([i \in 1..Len(str) |-> out(i)])
\* the parenthetical mentions of str whose key, made as the code makes it, is
\* in map
Resolvable(str, map) ==
  {i \in ParenScan(str, 1) :
     LET mt == PatternAMatch(str, i)
     IN MapHas(map, LookupKey(SurnameOf(mt.authorPart), mt.year))}

\* C15 as stated: the returned prose is the input with the parenthetical
\* mentions whose first author's key is in the index replaced by links, and
\* nothing else changed.
C15_OnlyParentheticalsChange ==
  result # NotRun =>
    result[1] = LinkParentheticals(content, authorYearMap, FirstAuthorSurname)

\* C15: with a non-empty index, the returned prose is the input in which each
\* parenthetical mention (2 to 80 characters without parentheses, a comma, a
\* year) whose key -- the last word of the author part after "et al.",
\* "and X", "& X" are cut off, lowercased, plus the year -- is in the index is
\* replaced by one link that wraps the whole parenthetical and targets the
\* URI of the indexed item, each other parenthetical and the text between
\* them being kept, and to which the narrative pass and the marker cleanup
\* are then applied; with an empty index the input is returned.
C15_ParentheticalsLinked ==
  result # NotRun =>
    result[1] =
      IF authorYearMap = <<>> THEN content
      ELSE RemoveMarkers(
             ReplacePatternB(
               LinkParentheticals(content, authorYearMap, SurnameOf),
               1, authorYearMap),
             1)

\* a prose with a parenthetical mention that is linked and one that is not
C15_Witness ==
  /\ result # NotRun
  /\ Resolvable(content, authorYearMap) # {}
  /\ Resolvable(content, authorYearMap) # ParenScan(content, 1)
  /\ result[1] # content

\* ---------------------------------------------------------------------------
\* the two passes
\* ---------------------------------------------------------------------------

URI_PREFIX == "zotero://select/library/items/"
\* the position of the bracket that closes the one opened at p, or 0
RECURSIVE ClosingBracket(_, _, _)
ClosingBracket(str, k, depth) ==
  IF k > Len(str) THEN 0
  ELSE IF str[k] = "[" THEN ClosingBracket(str, k + 1, depth + 1)
  ELSE IF str[k] = "]"
  THEN IF depth = 1 THEN k ELSE ClosingBracket(str, k + 1, depth - 1)
  ELSE ClosingBracket(str, k + 1, depth)
\* the links of str that target a zotero URI: the positions of their brackets
ZoteroLinks(str) ==
  {lk \in {[open |-> p, close |-> ClosingBracket(str, p + 1, 1)] :
             p \in {q \in 1..Len(str) : str[q] = "["}} :
     /\ lk.close # 0
     /\ CharAt(str, lk.close + 1) = "("
     /\ CharAt(str, lk.close + 2) = URI_PREFIX}
\* a zotero link of str lies in the display text of another one
HasNestedLink(str) ==
  \E outer, inner \in ZoteroLinks(str) :
    outer.open < inner.open /\ inner.close < outer.close
\* the links Pattern A makes out of str
ParentheticalLinks(str, map) ==
  {LET mt == PatternAMatch(str, i)
   IN LinkOf(SubSeq(str, i, mt.end),
             MapGet(map, LookupKey(SurnameOf(mt.authorPart), mt.year)).uri) :
     i \in Resolvable(str, map)}
\* the positions from i on at which the scan finds a narrative mention
RECURSIVE NarrativeScan(_, _)
NarrativeScan(str, i) ==
  IF i > Len(str) THEN {}
  ELSE IF PatternBMatches(str, i)
  THEN {i} \cup NarrativeScan(str, PatternBMatch(str, i).end + 1)
  ELSE NarrativeScan(str, i + 1)
\* the narrative mentions of str whose key is in map
NarrativeResolvable(str, map) ==
  {i \in NarrativeScan(str, 1) :
     LET mt == PatternBMatch(str, i)
         open == SkipSpaces(str, mt.authorEnd + 1)
     IN MapHas(map, LookupKey(NarrativeSurnameOf(SubSeq(str, i, mt.authorEnd)),
                              SubSeq(str, open + 1, open + YearLen)))}

\* C16 (pass ordering): with a non-empty index the returned prose is the
\* marker cleanup of Pattern B applied to the whole output of Pattern A;
\* Pattern B matches at no position of a link made by Pattern A; and no
\* zotero link of the returned prose lies inside the display text of another.
C16_ParentheticalBeforeNarrative ==
  result # NotRun /\ authorYearMap # <<>> =>
    LET a == ReplacePatternA(content, 1, authorYearMap)
    IN /\ result[1] = RemoveMarkers(ReplacePatternB(a, 1, authorYearMap), 1)
       /\ \A lk \in ParentheticalLinks(content, authorYearMap) :
            \A k \in 1..Len(lk) : ~PatternBMatches(lk, k)
       /\ ~HasNestedLink(result[1])

\* a prose with a parenthetical and a narrative mention, both linked
C16_Witness ==
  /\ result # NotRun
  /\ Resolvable(content, authorYearMap) # {}
  /\ NarrativeResolvable(content, authorYearMap) # {}
  /\ Cardinality(ZoteroLinks(result[1])) = 2

\* ---------------------------------------------------------------------------
\* narrative mentions
\* ---------------------------------------------------------------------------

\* \s+et\s+al\.? at position e: the position after it, or 0
EtAlEnd(str, e) ==
  LET w == SkipSpaces(str, e)
      a == SkipSpaces(str, w + 2)
  IN IF w > e /\ HasAt(str, w, <<"e", "t">>) /\ a > w + 2 /\ HasAt(str, a, <<"a", "l">>)
     THEN IF CharAt(str, a + 2) = "." THEN a + 3 ELSE a + 2
     ELSE 0
\* \s+\(\d{4}[a-z]?\) at position e: the position of the closing parenthesis,
\* or 0
YearInParensEnd(str, e) ==
  LET o == SkipSpaces(str, e)
  IN IF o > e /\ CharAt(str, o) = "(" THEN YearEnd(str, o + 1) ELSE 0
\* the mentions "Author (YYYY)" and "Author et al. (YYYY)" of str: where they
\* start, where the author text ends, where the mention ends
NarrativeMentions(str) ==
  {mn \in UNION {{[start |-> i, nameEnd |-> FirstNameEnd(str, i) - 1,
                  authorEnd |-> FirstNameEnd(str, i) - 1,
                  end |-> YearInParensEnd(str, FirstNameEnd(str, i))],
                 [start |-> i, nameEnd |-> FirstNameEnd(str, i) - 1,
                  authorEnd |-> EtAlEnd(str, FirstNameEnd(str, i)) - 1,
                  end |-> YearInParensEnd(str, EtAlEnd(str, FirstNameEnd(str, i)))]} :
                  i \in {k \in 1..Len(str) : FirstNameEnd(str, k) # 0}} :
     mn.authorEnd # -1 /\ mn.end # 0}
\* the bracket pairs of str that are followed by a parenthesis: its links
Links(str) ==
  {lk \in {[open |-> p, close |-> ClosingBracket(str, p + 1, 1)] :
             p \in {q \in 1..Len(str) : str[q] = "["}} :
     lk.close # 0 /\ CharAt(str, lk.close + 1) = "("}
Contains(str, sub) == \E p \in 1..Len(str) : HasAt(str, p, sub)

\* C17 as stated: a narrative mention "Author (YYYY)" or "Author et al.
\* (YYYY)" outside the links of the input whose key is in the index is shown,
\* author text and year, by a zotero link of the returned prose; no zotero
\* link of the returned prose lies in the display text of a link of the input.
C17_NarrativeMentionsLinked ==
  result # NotRun =>
    /\ \A mn \in NarrativeMentions(content) :
         LET year == SubSeq(content, mn.end - YearLen, mn.end - 1)
             yearAt == IF year[YearLen] \in Digits THEN mn.end - YearLen
                       ELSE mn.end - YearLen - 1
             k == LookupKey(SubSeq(content, mn.start, mn.nameEnd),
                            SubSeq(content, yearAt, yearAt + YearLen - 1))
         IN (/\ MapHas(authorYearMap, k)
             /\ ~\E lk \in Links(content) : lk.open < mn.start /\ mn.end < lk.close)
            => Contains(result[1],
                        SubSeq(content, mn.start, mn.authorEnd) \o <<" ", "(">>
                          \o SubSeq(content, yearAt, mn.end) \o <<"]", "(", URI_PREFIX>>)
    /\ \A zl \in ZoteroLinks(result[1]) :
         ~\E lk \in Links(result[1]) : lk.open < zl.open /\ zl.close < lk.close

\* ---------------------------------------------------------------------------
\* marker cleanup and the degenerate cases
\* ---------------------------------------------------------------------------

\* the positions of str at which a marker [itemId:N] starts
Markers(str) == {i \in 1..Len(str) : MarkerEnd(str, i) # 0}
\* no parenthetical and no narrative mention of str has its key in map
NoMentionResolves(str, map) ==
  Resolvable(str, map) = {} /\ NarrativeResolvable(str, map) = {}

\* t is a text made of characters of the input, of the URIs of the index and
\* of the punctuation of a link
IsProseOf(t) ==
  /\ DOMAIN t = 1..Len(t)
  /\ \A k \in 1..Len(t) :
       \/ t[k] \in Range(content) \cup {"[", "]", "(", ")", " "}
       \/ \E e \in Range(authorYearMap) : t[k] \in Range(e.value.uri)

\* C18 as stated: whatever the prose and the parent items, the returned prose
\* holds no marker [itemId:N].
C18_NoMarkerLeft ==
  result # NotRun => Markers(result[1]) = {}

\* C19 as stated: the passes yield a text; with an empty index, or when no
\* mention has its key in the index, the returned prose is the input.
C19_NoMatchReturnsInput ==
  /\ ixAt # <<0, 0>> /\ IndexDone => IsProseOf(ResolveCitations(content, authorYearMap))
  /\ (/\ result # NotRun
      /\ \/ authorYearMap = <<>>
         \/ NoMentionResolves(content, authorYearMap))
     => result[1] = content

\* C19: the index loops always have a next step and the passes yield a text;
\* with an empty index the returned prose is the input; with a non-empty index none
\* of whose keys is mentioned, it is the input without its markers [itemId:N]
\* (one scan, left to right).
C19_NeverFails ==
  /\ ixAt # <<0, 0>> /\ ~IndexDone => ENABLED (IndexSkipItem \/ IndexCreator)
  /\ ixAt # <<0, 0>> /\ IndexDone => IsProseOf(ResolveCitations(content, authorYearMap))
  /\ result # NotRun /\ authorYearMap = <<>> => result[1] = content
  /\ (/\ result # NotRun
      /\ authorYearMap # <<>>
      /\ NoMentionResolves(content, authorYearMap))
     => result[1] = RemoveMarkers(content, 1)

\* a prose with a marker and with mentions none of which is in the non-empty
\* index: returned without the marker
C19_Witness ==
  /\ result # NotRun
  /\ authorYearMap # <<>>
  /\ NoMentionResolves(content, authorYearMap)
  /\ ParenScan(content, 1) \cup NarrativeScan(content, 1) # {}
  /\ Markers(content) # {}
  /\ result[1] # content

\* ---------------------------------------------------------------------------
\* generateReview
\* ---------------------------------------------------------------------------

\* the parent item of a source: source 1 has a creator and a year, source 2 a
\* single-field creator name and no date
SourceItem(src) ==
  IF src = 1 THEN ParentItem(1, <<CreatorAb>>, Date2014)
  ELSE ParentItem(src, <<CreatorFCd>>, <<>>)
\* a table text of the fill phase, which holds no line break, as lines
AsLines(text) == <<text>>
\* the prose the summarization collaborator may return for the review
SynthesisReplies == {PAREN_AB \o MARKER, NARR_AB}
\* the sources that carry the AI-Reviewed tag before the run
InitialTagSets == {{}, {1}}

\* events of the history
Event(name, n) == [ev |-> name, n |-> n]
\* progressCallback?.(message, n)
ProgressEvent(n) == Event("progress", n)
PhaseEvents ==
  <<"aggregate", "aggregated", "synthesisCall", "synthesisReturn", "citations",
    "citationsDone", "noteCall", "noteCreated">>

\* the loop over the creators of a parent item, from creator j on
RECURSIVE RegisterCreators(_, _, _, _)
RegisterCreators(map, parentItem, year, j) ==
  IF j > Len(parentItem.creators) THEN map
  ELSE LET surname == CreatorSurname(parentItem.creators[j])
           next == IF surname = <<>> THEN map
                   ELSE Register(map, LookupKey(surname, year),
                                 [item |-> parentItem.id, key |-> parentItem.key,
                                  uri |-> Uri(parentItem.key)])
       IN RegisterCreators(next, parentItem, year, j + 1)
\* the loop over the parent items, from item i on: the lookup table
RECURSIVE BuildIndex(_, _, _)
BuildIndex(map, pairs, i) ==
  IF i > Len(pairs) THEN map
  ELSE LET parentItem == pairs[i]
           year == FirstYear(parentItem.date)
           next == IF year = <<>> \/ parentItem.creators = <<>> THEN map
                   ELSE RegisterCreators(map, parentItem, year, 1)
       IN BuildIndex(next, pairs, i + 1)
\* postProcessCitations(content, itemPdfPairs): the table and the return value
postProcessCitations(text, pairs) ==
  LET map == BuildIndex(<<>>, pairs, 1)
  IN [authorYearMap |-> map, result |-> ResolveCitations(text, map)]

\* generateReview has called fillTablesInParallel and not awaited its return
FillCalled == runPc \in {"running", "resolved"}

\* `await this.fillTablesInParallel(...)` has returned
FillReturned == runPc = "resolved"

\* generateReview up to the call of fillTablesInParallel: the pairs are built,
\* progress 10 is reported
ReviewInit ==
  /\ UnitsOff
  /\ notes \in [Sources -> SchedNoteLists]
  /\ notes0 = notes
  /\ clients = <<>>
  /\ runPc = "init"
  /\ items \in BoundedSeq(Sources, MaxPairs)
  /\ concurrency \in 1..MaxConcurrency
  /\ queue = <<>>
  /\ results = <<>>
  /\ completed = 0
  /\ wk = <<>>
  /\ progress = <<>>
  /\ log = [i \in 1..Len(items) |-> <<>>]
  /\ itemPdfPairs = [i \in 1..Len(items) |-> SourceItem(items[i])]
  /\ AggregationOff
  /\ CitationsOff
  /\ reviewPc = "fill"
  /\ trace = <<ProgressEvent(10)>>
  /\ \E tagged \in InitialTagSets :
       review = [note |-> NotRun, tags |-> tagged, saved |-> tagged, tags0 |-> tagged,
                 tagAt |-> 0, returned |-> NotRun, error |-> NotRun]

\* from the return of fillTablesInParallel to the call of the summarization
\* collaborator: progress 65, aggregateTableContents, progress 70, the call
ReviewAggregate ==
  /\ reviewPc = "fill"
  /\ FillReturned
  /\ \E tr \in {[k \in 1..Len(results) |->
                  [key |-> results[k].key, value |-> AsLines(results[k].value)]]} :
       /\ tableResults' = tr
       /\ \E agg \in {aggregateTableContents(tr, itemPdfPairs)} : aggregated' = agg
  /\ trace' = trace \o <<ProgressEvent(65), Event("aggregate", 0), Event("aggregated", 0),
                         ProgressEvent(70), Event("synthesisCall", 0)>>
  /\ reviewPc' = "synthesis"
  /\ UNCHANGED <<notes, notes0, clients, schedVars, unitVars, itemPdfPairs, ixAt, authorYearMap,
                 content, result, review>>

\* generateSummaryWithRetry returns the prose; postProcessCitations runs to
\* its return (it awaits nothing)
ReviewSynthesisReturns ==
  /\ reviewPc = "synthesis"
  /\ \E summaryContent \in SynthesisReplies :
       \E post \in {postProcessCitations(summaryContent, itemPdfPairs)} :
         /\ content' = summaryContent
         /\ authorYearMap' = post.authorYearMap
         /\ result' = Returned(post.result)
  /\ trace' = trace \o <<Event("synthesisReturn", 0), Event("citations", 0),
                         Event("citationsDone", 0)>>
  /\ reviewPc' = "citationsDone"
  /\ UNCHANGED <<notes, notes0, clients, schedVars, unitVars, tableResults, aggregated,
                 itemPdfPairs, ixAt, review>>

\* a failure of the synthesis that is swallowed: the run goes on with an
\* empty summary
ReviewSynthesisIgnored ==
  /\ reviewPc = "synthesis"
  /\ content' = <<>>
  /\ result' = Returned(<<>>)
  /\ trace' = Append(trace, Event("synthesisFailed", 0))
  /\ reviewPc' = "citationsDone"
  /\ UNCHANGED <<notes, notes0, clients, schedVars, unitVars, tableResults, aggregated,
                 itemPdfPairs, ixAt, authorYearMap, review>>

\* generateSummaryWithRetry throws: generateReview rejects with its error
ReviewSynthesisFails ==
  /\ reviewPc = "synthesis"
  /\ trace' = Append(trace, Event("synthesisFailed", 0))
  /\ review' = [review EXCEPT !.error = ErrLlm]
  /\ reviewPc' = "failed"
  /\ UNCHANGED <<notes, notes0, clients, schedVars, unitVars, tableResults, aggregated,
                 itemPdfPairs, ixAt, authorYearMap, content, result>>

\* after `await this.postProcessCitations(...)`: progress 90 and the call of
\* createStandaloneReviewNote, up to its transaction
ReviewCreateNote ==
  /\ reviewPc = "citationsDone"
  /\ trace' = trace \o <<ProgressEvent(90), Event("noteCall", 0)>>
  /\ reviewPc' = "creatingNote"
  /\ UNCHANGED <<notes, notes0, clients, schedVars, unitVars, tableResults, aggregated,
                 itemPdfPairs, ixAt, authorYearMap, content, result, review>>

\* a note without the tag
UntaggedReviewNote(text) == [content |-> text, tags |-> {}]

\* createStandaloneReviewNote: the note it builds before its transaction
StandaloneReviewNote(text) == [content |-> text, tags |-> {"AI-Review"}]

\* the transaction of createStandaloneReviewNote commits: the note, with the
\* tag AI-Review, is saved and returned
ReviewNoteCreated ==
  /\ reviewPc = "creatingNote"
  /\ review' = [review EXCEPT !.note = <<StandaloneReviewNote(result[1])>>,
                              !.tagAt = 1]
  /\ trace' = Append(trace, Event("noteCreated", 0))
  /\ reviewPc' = "tagging"
  /\ UNCHANGED <<notes, notes0, clients, schedVars, unitVars, tableResults, aggregated,
                 itemPdfPairs, ixAt, authorYearMap, content, result>>

\* the transaction of createStandaloneReviewNote fails: generateReview rejects
ReviewNoteFails ==
  /\ reviewPc = "creatingNote"
  /\ trace' = Append(trace, Event("noteFailed", 0))
  /\ review' = [review EXCEPT !.error = ErrSaveTx]
  /\ reviewPc' = "failed"
  /\ UNCHANGED <<notes, notes0, clients, schedVars, unitVars, tableResults, aggregated,
                 itemPdfPairs, ixAt, authorYearMap, content, result>>

\* the tagging loop is at a parent item
Tagging == reviewPc = "tagging" /\ review.tagAt <= Len(itemPdfPairs)

\* an iteration of the tagging loop for a parent item that has the tag
ReviewTagSkip ==
  /\ Tagging
  /\ itemPdfPairs[review.tagAt].id \in review.tags
  /\ review' = [review EXCEPT !.tagAt = @ + 1]
  /\ UNCHANGED <<notes, notes0, clients, schedVars, unitVars, tableResults, aggregated,
                 itemPdfPairs, ixAt, authorYearMap, content, result, reviewPc, trace>>

\* an iteration of the tagging loop: addTag("AI-Reviewed") and saveTx()
ReviewTagSaved ==
  /\ Tagging
  /\ LET src == itemPdfPairs[review.tagAt].id
     IN /\ src \notin review.tags
        /\ review' = [review EXCEPT !.tags = @ \cup {src}, !.saved = @ \cup {src},
                                    !.tagAt = @ + 1]
        /\ trace' = Append(trace, Event("tagged", src))
  /\ UNCHANGED <<notes, notes0, clients, schedVars, unitVars, tableResults, aggregated,
                 itemPdfPairs, ixAt, authorYearMap, content, result, reviewPc>>

\* a tagging loop without try/catch: the failure rejects generateReview
ReviewTagAborts ==
  /\ Tagging
  /\ LET src == itemPdfPairs[review.tagAt].id
     IN /\ src \notin review.tags
        /\ review' = [review EXCEPT !.error = ErrSaveTx]
        /\ trace' = Append(trace, Event("tagFailed", src))
  /\ reviewPc' = "failed"
  /\ UNCHANGED <<notes, notes0, clients, schedVars, unitVars, tableResults, aggregated,
                 itemPdfPairs, ixAt, authorYearMap, content, result>>

\* an iteration of the tagging loop in which addTag or saveTx throws: the
\* error is logged; the item keeps the tag in memory if addTag had returned
ReviewTagFails ==
  /\ Tagging
  /\ LET src == itemPdfPairs[review.tagAt].id
     IN /\ src \notin review.tags
        /\ \E added \in BOOLEAN :
             review' = [review EXCEPT !.tags = IF added THEN @ \cup {src} ELSE @,
                                      !.tagAt = @ + 1]
        /\ trace' = Append(trace, Event("tagFailed", src))
  /\ UNCHANGED <<notes, notes0, clients, schedVars, unitVars, tableResults, aggregated,
                 itemPdfPairs, ixAt, authorYearMap, content, result, reviewPc>>

\* after the tagging loop: progress 100, the note is returned
ReviewReturn ==
  /\ reviewPc = "tagging"
  /\ review.tagAt > Len(itemPdfPairs)
  /\ trace' = Append(trace, ProgressEvent(100))
  /\ review' = [review EXCEPT !.returned = review.note]
  /\ reviewPc' = "done"
  /\ UNCHANGED <<notes, notes0, clients, schedVars, unitVars, tableResults, aggregated,
                 itemPdfPairs, ixAt, authorYearMap, content, result>>

ReviewNext ==
  \/ Next
  \/ ReviewAggregate
  \/ ReviewSynthesisReturns
  \/ ReviewSynthesisFails
  \/ ReviewCreateNote
  \/ ReviewNoteCreated
  \/ ReviewNoteFails
  \/ ReviewTagSkip
  \/ ReviewTagSaved
  \/ ReviewTagFails
  \/ ReviewReturn

ReviewSpec == ReviewInit /\ [][ReviewNext]_vars

\* the position of a phase event in the order of the pipeline, 0 for others
PhaseRank(e) ==
  IF \E r \in 1..Len(PhaseEvents) : PhaseEvents[r] = e.ev
  THEN CHOOSE r \in 1..Len(PhaseEvents) : PhaseEvents[r] = e.ev
  ELSE 0
\* the phase events of a history, in order
Phases(tr) == SelectSeq(tr, LAMBDA e : PhaseRank(e) # 0)
\* the phase events of a history are the first ones of the pipeline, each
\* once, in the order of the pipeline
InPipelineOrder(tr) == \A k \in 1..Len(Phases(tr)) : PhaseRank(Phases(tr)[k]) = k
CountOf(tr, name) == Cardinality({k \in 1..Len(tr) : tr[k].ev = name})

\* C20 (pipeline ordering): aggregation starts in a state in which
\* fillTablesInParallel has resolved and every worker has exited, and no
\* scheduler variable changes from then on; in every history aggregation, the
\* synthesis call and its return, citation resolution, and the creation of
\* the note start and end in this order, each phase ending before the next
\* starts and none twice; once the synthesis has returned or failed the
\* collaborator has been called exactly once.
C20_PhasesInOrder ==
  [][/\ reviewPc = "fill" /\ reviewPc' # "fill" =>
          runPc = "resolved" /\ AllWorkersExited /\ queue = <<>>
     /\ reviewPc # "fill" => UNCHANGED schedVars
     /\ InPipelineOrder(trace')
     /\ reviewPc' \notin {"off", "fill"} => CountOf(trace', "synthesisCall") = 1
     /\ reviewPc' = "fill" => CountOf(trace', "synthesisCall") = 0]_vars

\* a run over two pairs with two workers that has created the note
C20_Witness ==
  /\ reviewPc = "tagging"
  /\ Len(items) = 2
  /\ Len(wk) = 2
  /\ review.note # NotRun
  /\ Len(Phases(trace)) = Len(PhaseEvents)

\* ---------------------------------------------------------------------------
\* the review note and the tags
\* ---------------------------------------------------------------------------

\* generateReview has returned or rejected
ReviewEnded == reviewPc \in {"done", "failed"}
SynthesisSucceeded == CountOf(trace, "synthesisReturn") = 1
\* the pairs whose recorded table is a failure placeholder
DegradedPairs == {k \in 1..Len(results) : IsPlaceholder(results[k].value)}

C22_SynthesisFailureRejects ==
  [][/\ reviewPc # "failed"
     /\ reviewPc # "fill" => notes' = notes
     /\ CountOf(trace', "synthesisFailed") > 0 =>
          /\ reviewPc' = "failed"
          /\ review'.error = ErrLlm
          /\ CountOf(trace', "synthesisCall") = 1
          /\ CountOf(trace', "synthesisFailed") = 1
          /\ review'.note = NotRun
          /\ review'.returned = NotRun
          /\ CountOf(trace', "noteCall") = 0
          /\ review'.tags = review'.tags0
          /\ review'.saved = review'.tags0
          /\ \A k \in 1..Len(trace') : trace'[k].ev \notin {"tagged", "tagFailed"}]_vars

\* the synthesis has failed after a fill phase that stored a table note, and
\* the note is still stored
C22_Witness ==
  /\ reviewPc = "failed"
  /\ CountOf(trace, "synthesisFailed") = 1
  /\ \E src \in Sources :
       /\ TableNotes(notes0[src]) = {}
       /\ TableNotes(notes[src]) # {}

\* the tagging events of a history for a source
TagEvents(tr, src, names) ==
  {k \in 1..Len(tr) : tr[k].ev \in names /\ tr[k].n = src}

\* C23 (tagging isolation): during the tagging loop the note does not change
\* and the run does not reject; an iteration that fails moves on to the next
\* parent item; an iteration for a source that carries the tag saves nothing
\* and reports nothing; a source is saved with the tag at most once, and never
\* if it carried the tag before the run; when the run has returned, every
\* source of the pairs carried the tag or was tried, and the value returned
\* is the note that was created.
C23_TaggingIsolated ==
  [][/\ reviewPc = "tagging" =>
          /\ review'.note = review.note
          /\ reviewPc' \in {"tagging", "done"}
          /\ Len(trace') > Len(trace) /\ trace'[Len(trace')].ev = "tagFailed" =>
               reviewPc' = "tagging" /\ review'.tagAt = review.tagAt + 1
          /\ Tagging /\ itemPdfPairs[review.tagAt].id \in review.tags =>
               review'.saved = review.saved /\ trace' = trace
     /\ \A src \in Sources :
          /\ Cardinality(TagEvents(trace', src, {"tagged"})) <= 1
          /\ src \in review'.tags0 =>
               TagEvents(trace', src, {"tagged", "tagFailed"}) = {}
     /\ reviewPc' = "done" =>
          /\ review'.returned = review'.note
          /\ review'.note # NotRun
          /\ \A k \in 1..Len(itemPdfPairs') :
               LET src == itemPdfPairs'[k].id
               IN \/ src \in review'.tags0
                  \/ TagEvents(trace', src, {"tagged", "tagFailed"}) # {}]_vars

\* the run has returned the note after tagging failed for the first source
\* and succeeded for the second
C23_Witness ==
  /\ reviewPc = "done"
  /\ review.returned # NotRun
  /\ Len(itemPdfPairs) = 2
  /\ TagEvents(trace, itemPdfPairs[1].id, {"tagFailed"}) # {}
  /\ TagEvents(trace, itemPdfPairs[2].id, {"tagged"}) # {}
  /\ \E k \in 1..Len(trace) : trace[k].ev = "tagFailed" /\
       \E j \in (k + 1)..Len(trace) : trace[j].ev = "tagged"

\* ---------------------------------------------------------------------------
\* fillTableForSinglePDF, step by step
\* ---------------------------------------------------------------------------

\* "${tableTemplate}", kept as one element
TEMPLATE_SLOT == "${tableTemplate}"
\* table templates: plain ones, and one that holds the replacement patterns
\* "$$" and "$&" of String.prototype.replace
TableTemplates == {<<"|h|">>, <<"|h|", "|-|">>, <<"$$", "|h|", "$&">>}
\* fill prompts: with the slot once, twice, not at all, or alone
FillPrompts ==
  {<<"fill ", TEMPLATE_SLOT>>, <<TEMPLATE_SLOT, " and ", TEMPLATE_SLOT>>, <<"fill">>,
   <<TEMPLATE_SLOT>>}
\* the text a replacement string stands for, given the matched text
RECURSIVE ExpandReplacement(_, _)
ExpandReplacement(rep, matched) ==
  IF rep = <<>> THEN <<>>
  ELSE (CASE Head(rep) = "$$" -> <<"$">>
          [] Head(rep) = "$&" -> matched
          [] OTHER -> <<Head(rep)>>) \o ExpandReplacement(Tail(rep), matched)
\* fillPrompt.replace(/\$\{tableTemplate\}/g, tableTemplate)
ActualPrompt(fillPrompt, tableTemplate) ==
  ReplaceAll(fillPrompt, <<TEMPLATE_SLOT>>,
             ExpandReplacement(tableTemplate, <<TEMPLATE_SLOT>>))
\* what fill hands to the summarization collaborator
BASE64_CONTENT == <<"base64 of the file">>
EXTRACTED_TEXT == <<"text of the item">>
\* a call of a collaborator
Call(fn, pdfContent, isBinary, prompt) ==
  [fn |-> fn, content |-> pdfContent, isBinary |-> isBinary, prompt |-> prompt]
PlainCall(fn) == Call(fn, <<>>, FALSE, <<>>)
\* LLMClient.generateSummaryWithRetry(pdfContent, isBase64, actualPrompt)
GenerateCall(pdfContent, isBase64, fillPrompt, tableTemplate) ==
  Call("generateSummaryWithRetry", pdfContent, isBase64,
       ActualPrompt(fillPrompt, tableTemplate))

FillInit ==
  /\ notes = [src \in Sources |-> <<>>]
  /\ notes0 = notes
  /\ clients = <<>>
  /\ SchedulerOff
  /\ ReviewOff
  /\ ocr = [pc |-> "off"]
  /\ bar = [pc |-> "off"]
  /\ \E tableTemplate \in TableTemplates, fillPrompt \in FillPrompts :
       fill = [pc |-> "filePath", tableTemplate |-> tableTemplate,
               fillPrompt |-> fillPrompt, readOk |-> FALSE, calls |-> <<>>,
               value |-> NotRun]

\* `await pdfAttachment.getFilePathAsync()` returns: a path, or none and the
\* function throws; with a path IOUtils.read is called
FillGetFilePath ==
  /\ fill.pc = "filePath"
  /\ \E filePath \in BOOLEAN :
       fill' = IF filePath
               THEN [fill EXCEPT !.pc = "read",
                                 !.calls = @ \o <<PlainCall("getFilePathAsync"),
                                                  PlainCall("IOUtils.read")>>]
               ELSE [fill EXCEPT !.pc = "failed", !.value = ErrNoFilePath,
                                 !.calls = Append(@, PlainCall("getFilePathAsync"))]
  /\ UNCHANGED <<notes, notes0, clients, schedVars, reviewVars, ocr, bar>>

\* a fill in which a failed read is not caught
FillReadNoFallback ==
  /\ fill.pc = "read"
  /\ \E readOk \in BOOLEAN :
       fill' = IF readOk
               THEN [fill EXCEPT !.pc = "generate", !.readOk = TRUE,
                                 !.calls = Append(@, GenerateCall(BASE64_CONTENT, TRUE,
                                                                  fill.fillPrompt,
                                                                  fill.tableTemplate))]
               ELSE [fill EXCEPT !.pc = "failed", !.value = ErrExtractText]
  /\ UNCHANGED <<notes, notes0, clients, schedVars, reviewVars, ocr, bar>>

\* `await IOUtils.read(filePath)` returns or throws: with the bytes the
\* prompt is built and the summarization collaborator is called in binary
\* mode; in the catch block PDFExtractor.extractTextFromItem is called
FillRead ==
  /\ fill.pc = "read"
  /\ \E readOk \in BOOLEAN :
       fill' = IF readOk
               THEN [fill EXCEPT !.pc = "generate", !.readOk = TRUE,
                                 !.calls = Append(@, GenerateCall(BASE64_CONTENT, TRUE,
                                                                  fill.fillPrompt,
                                                                  fill.tableTemplate))]
               ELSE [fill EXCEPT !.pc = "extractText",
                                 !.calls = Append(@, PlainCall("extractTextFromItem"))]
  /\ UNCHANGED <<notes, notes0, clients, schedVars, reviewVars, ocr, bar>>

\* `await PDFExtractor.extractTextFromItem(item)` returns or throws: with the
\* text the prompt is built and the summarization collaborator is called in
\* text mode
FillExtractText ==
  /\ fill.pc = "extractText"
  /\ \E textOk \in BOOLEAN :
       fill' = IF textOk
               THEN [fill EXCEPT !.pc = "generate",
                                 !.calls = Append(@, GenerateCall(EXTRACTED_TEXT, FALSE,
                                                                  fill.fillPrompt,
                                                                  fill.tableTemplate))]
               ELSE [fill EXCEPT !.pc = "failed", !.value = ErrExtractText]
  /\ UNCHANGED <<notes, notes0, clients, schedVars, reviewVars, ocr, bar>>

\* `await LLMClient.generateSummaryWithRetry(...)` returns the table or throws
FillGenerate ==
  /\ fill.pc = "generate"
  /\ \E llm \in LlmReplies :
       fill' = IF llm.ok
               THEN [fill EXCEPT !.pc = "returned", !.value = llm.text]
               ELSE [fill EXCEPT !.pc = "failed", !.value = ErrLlm]
  /\ UNCHANGED <<notes, notes0, clients, schedVars, reviewVars, ocr, bar>>

FillNext ==
  \/ FillGetFilePath
  \/ FillRead
  \/ FillExtractText
  \/ FillGenerate

FillSpec == FillInit /\ [][FillNext]_vars

\* the calls of one collaborator made so far
CallsOf(fn) == SelectSeq(fill.calls, LAMBDA c : c.fn = fn)
FillEnded == fill.pc \in {"returned", "failed"}
HasSlot(fillPrompt) == \E i \in 1..Len(fillPrompt) : fillPrompt[i] = TEMPLATE_SLOT

\* C24: a fill prompt that lacks the substitution placeholder makes the run
\* fail at once, before any extraction or summarization collaborator call
\* is made.
C24_MissingSlotIsFatal ==
  (fill.pc # "off" /\ ~HasSlot(fill.fillPrompt))
    => /\ CallsOf("IOUtils.read") = <<>>
       /\ CallsOf("extractTextFromItem") = <<>>
       /\ CallsOf("generateSummaryWithRetry") = <<>>
       /\ fill.pc # "returned"

\* the inputs of the one-step fill that the steps taken stand for
FillAsOneStep ==
  {fillTableForSinglePDF(filePath, readOk, textOk, llm) :
     filePath \in BOOLEAN, readOk \in BOOLEAN, textOk \in BOOLEAN, llm \in LlmReplies}

\* C26: in fill, a successful read of the attachment bytes leads to one call
\* of the summarization collaborator with the binary content and isBinary =
\* true; a failed read leads to one call of the text-extraction collaborator
\* and then one call of the summarization collaborator with that text and
\* isBinary = false, after which fill can succeed; fill fails without any
\* collaborator call when the attachment has no file path, and fails when
\* the text fallback or the summarization call fails.
C26_ExtractorFallback ==
  LET read == CallsOf("IOUtils.read")
      text == CallsOf("extractTextFromItem")
      gen == CallsOf("generateSummaryWithRetry")
  IN /\ Len(read) <= 1 /\ Len(text) <= 1 /\ Len(gen) <= 1
     /\ (text # <<>>) => (read # <<>> /\ ~fill.readOk)
     /\ fill.readOk => text = <<>>
     /\ (gen # <<>>) =>
          /\ read # <<>>
          /\ gen[1].isBinary = fill.readOk
          /\ gen[1].content = (IF fill.readOk THEN BASE64_CONTENT ELSE EXTRACTED_TEXT)
          /\ ~fill.readOk => text # <<>>
          /\ gen[1].prompt = ActualPrompt(fill.fillPrompt, fill.tableTemplate)
          /\ fill.calls[Len(fill.calls)] = gen[1]
     /\ fill.pc = "generate" <=> (gen # <<>> /\ ~FillEnded)
     /\ fill.pc = "extractText" <=> (text # <<>> /\ gen = <<>> /\ ~FillEnded)
     /\ fill.pc = "returned" => (gen # <<>> /\ fill.value \in {llm.text : llm \in LlmReplies})
     /\ fill.pc = "failed" =>
          \/ fill.value = ErrNoFilePath /\ read = <<>> /\ text = <<>> /\ gen = <<>>
          \/ fill.value = ErrExtractText /\ text # <<>> /\ gen = <<>>
          \/ fill.value = ErrLlm /\ gen # <<>>
     /\ FillEnded =>
          \E one \in FillAsOneStep :
            /\ one.ok = (fill.pc = "returned")
            /\ one.value = fill.value

\* a read that failed, a text fallback that worked, and a fill that returned
C26_Witness ==
  /\ fill.pc = "returned"
  /\ ~fill.readOk
  /\ Len(CallsOf("extractTextFromItem")) = 1
  /\ Len(CallsOf("generateSummaryWithRetry")) = 1
  /\ ~fill.calls[Len(fill.calls)].isBinary

\* ---------------------------------------------------------------------------
\* MineruClient: extractMarkdown, pollStatusAndDownload,
\* downloadAndExtractMarkdown
\* ---------------------------------------------------------------------------

\* `for (let i = 0; i < 60; i++)`
PollLimit == 60
\* `await Zotero.Promise.delay(5000)`
PollInterval == 5000

ErrNoApiKey == <<"MinerU API Key not configured.">>
ErrNoAttachment == <<"No PDF attachment found.">>
ErrNoPath == <<"PDF file path not found.">>
ErrRead == <<"IOUtils.read failed">>
ErrFetch == <<"fetch failed">>
ErrJson == <<"body is not JSON">>
ErrUploadUrl == <<"Failed to get upload URL">>
ErrBatchResponse == <<"MinerU API returned unexpected batch response">>
ErrPut == <<"Failed to put upload file">>
ErrNoZipUrl == <<"MinerU Task completed but no full_zip_url returned.">>
ErrTaskFailed == <<"MinerU Task failed processing.">>
ErrTimedOut == <<"MinerU Task timed out.">>
ErrDownload == <<"Failed to download zip file">>
ErrZip == <<"JSZip failed">>
ErrNoMarkdown == <<"No valid Markdown file found in the extracted zip.">>
MARKDOWN == <<"# markdown">>

\* the values of the preference mineruApiKey
ApiKeys == {"", "key"}
\* where a batch response may carry the upload URL
UrlPlaces ==
  {"file_urls[0]", "urls[0]", "urls[fileName]", "items[0].url", "upload_url"}
\* the answers to the POST of file-urls/batch: the fetch rejects, or a
\* response with its `ok`, whether its body parses, its batch_id ("" when
\* absent) and the places of its body that hold a URL
BatchResponses ==
  {[rejected |-> TRUE, ok |-> FALSE, json |-> FALSE, batch_id |-> "", urls |-> {}]}
    \cup {[rejected |-> FALSE, ok |-> ok, json |-> json, batch_id |-> id, urls |-> u] :
            ok \in BOOLEAN, json \in BOOLEAN, id \in {"", "b1"},
            u \in {{}} \cup {{place} : place \in UrlPlaces}}
\* lines 55-65: the first place, in the order of the code, that holds a URL
PutUrl(batchData) ==
  IF "file_urls[0]" \in batchData.urls THEN "file_urls[0]"
  ELSE IF "urls[0]" \in batchData.urls THEN "urls[0]"
  ELSE IF "urls[fileName]" \in batchData.urls THEN "urls[fileName]"
  ELSE IF "items[0].url" \in batchData.urls THEN "items[0].url"
  ELSE IF "upload_url" \in batchData.urls THEN "upload_url"
  ELSE ""
\* the answers to a status request: the fetch rejects, the body does not
\* parse, or a body whose first extract result (or, without one, whose data)
\* has a state and may have a full_zip_url
StatusResponses ==
  {[rejected |-> TRUE, json |-> FALSE, state |-> "", full_zip_url |-> ""],
   [rejected |-> FALSE, json |-> FALSE, state |-> "", full_zip_url |-> ""],
   [rejected |-> FALSE, json |-> TRUE, state |-> "running", full_zip_url |-> ""]}
    \cup {[rejected |-> FALSE, json |-> TRUE, state |-> st, full_zip_url |-> z] :
            st \in {"done", "error"}, z \in {"", "zip-url"}}
\* what the answer to a status request is recorded as
StatusAnswer(res) ==
  IF res.rejected THEN "rejected"
  ELSE IF ~res.json THEN "not json"
  ELSE IF res.state = "done" /\ res.full_zip_url # "" THEN "done"
  ELSE IF res.state = "done" THEN "done without url"
  ELSE res.state

\* a poll that goes on after a response whose state is error
PollStepIgnoresError(res) ==
  IF res.rejected THEN [to |-> "failed", value |-> ErrFetch]
  ELSE IF ~res.json THEN [to |-> "failed", value |-> ErrJson]
  ELSE IF res.state = "done"
  THEN IF res.full_zip_url = ""
       THEN [to |-> "failed", value |-> ErrNoZipUrl]
       ELSE [to |-> "download", value |-> NotRun]
  ELSE [to |-> "continue", value |-> NotRun]

\* lines 104-125: what one answer to a status request leads to
PollStep(res) ==
  IF res.rejected THEN [to |-> "failed", value |-> ErrFetch]
  ELSE IF ~res.json THEN [to |-> "failed", value |-> ErrJson]
  ELSE IF res.state = "done"
  THEN IF res.full_zip_url = ""
       THEN [to |-> "failed", value |-> ErrNoZipUrl]
       ELSE [to |-> "download", value |-> NotRun]
  ELSE IF res.state = "error"
  THEN [to |-> "failed", value |-> ErrTaskFailed]
  ELSE [to |-> "continue", value |-> NotRun]

\* a call is recorded when it is made and answered when its promise settles
Ask(calls, fn, arg) == Append(calls, [fn |-> fn, arg |-> arg, answer |-> "pending"])
Answer(calls, answer) == [calls EXCEPT ![Len(calls)].answer = answer]
OcrFails(answer, error) ==
  [ocr EXCEPT !.pc = "failed", !.value = error, !.calls = Answer(@, answer)]
OcrGoes(answer, pc, fn, arg) ==
  [ocr EXCEPT !.pc = pc, !.calls = Ask(Answer(@, answer), fn, arg)]

OcrInit ==
  /\ notes = [src \in Sources |-> <<>>]
  /\ notes0 = notes
  /\ clients = <<>>
  /\ SchedulerOff
  /\ ReviewOff
  /\ fill = [pc |-> "off"]
  /\ bar = [pc |-> "off"]
  /\ \E apiKey \in ApiKeys :
       ocr = [pc |-> "apiKey", apiKey |-> apiKey, calls |-> <<>>, i |-> 0,
              batchData |-> NotRun, value |-> NotRun]

\* an extraction that does not look at the key
OcrKeyUnchecked ==
  /\ ocr.pc = "apiKey"
  /\ ocr' = [ocr EXCEPT !.pc = "attachments",
                        !.calls = Ask(@, "getAllPdfAttachments", 0)]
  /\ UNCHANGED <<notes, notes0, clients, schedVars, reviewVars, fill, bar>>

\* lines 14-20: the key check, then the attachment lookup
OcrCheckKey ==
  /\ ocr.pc = "apiKey"
  /\ ocr' = IF ocr.apiKey = ""
            THEN [ocr EXCEPT !.pc = "failed", !.value = ErrNoApiKey]
            ELSE [ocr EXCEPT !.pc = "attachments",
                             !.calls = Ask(@, "getAllPdfAttachments", 0)]
  /\ UNCHANGED <<notes, notes0, clients, schedVars, reviewVars, fill, bar>>

\* lines 20-25
OcrAttachments ==
  /\ ocr.pc = "attachments"
  /\ \E found \in BOOLEAN :
       ocr' = IF found THEN OcrGoes("ok", "filePath", "getFilePathAsync", 0)
              ELSE OcrFails("none", ErrNoAttachment)
  /\ UNCHANGED <<notes, notes0, clients, schedVars, reviewVars, fill, bar>>

\* lines 25-33
OcrFilePath ==
  /\ ocr.pc = "filePath"
  /\ \E filePath \in BOOLEAN :
       ocr' = IF filePath THEN OcrGoes("ok", "read", "IOUtils.read", 0)
              ELSE OcrFails("none", ErrNoPath)
  /\ UNCHANGED <<notes, notes0, clients, schedVars, reviewVars, fill, bar>>

\* lines 33-47
OcrRead ==
  /\ ocr.pc = "read"
  /\ \E readOk \in BOOLEAN :
       ocr' = IF readOk THEN OcrGoes("ok", "batch", "POST file-urls/batch", 0)
              ELSE OcrFails("rejected", ErrRead)
  /\ UNCHANGED <<notes, notes0, clients, schedVars, reviewVars, fill, bar>>

\* lines 38-78: the answer to the batch request, and the upload
OcrBatch ==
  /\ ocr.pc = "batch"
  /\ \E batchRes \in BatchResponses :
       ocr' = IF batchRes.rejected THEN OcrFails("rejected", ErrFetch)
              ELSE IF ~batchRes.ok THEN OcrFails("not ok", ErrUploadUrl)
              ELSE IF ~batchRes.json THEN OcrFails("not json", ErrJson)
              ELSE IF PutUrl(batchRes) = "" \/ batchRes.batch_id = ""
              THEN [OcrFails("ok", ErrBatchResponse) EXCEPT !.batchData = batchRes]
              ELSE [OcrGoes("ok", "upload", "PUT putUrl", 0)
                      EXCEPT !.batchData = batchRes]
  /\ UNCHANGED <<notes, notes0, clients, schedVars, reviewVars, fill, bar>>

\* lines 75-102: the answer to the upload, and the first delay of the poll
OcrUpload ==
  /\ ocr.pc = "upload"
  /\ \E putRes \in {"rejected", "not ok", "ok"} :
       ocr' = CASE putRes = "rejected" -> OcrFails("rejected", ErrFetch)
                [] putRes = "not ok" -> OcrFails("not ok", ErrPut)
                [] OTHER ->
                     IF 0 < PollLimit
                     THEN [OcrGoes("ok", "delay", "Zotero.Promise.delay", PollInterval)
                             EXCEPT !.i = 0]
                     ELSE OcrFails("ok", ErrTimedOut)
  /\ UNCHANGED <<notes, notes0, clients, schedVars, reviewVars, fill, bar>>

\* lines 102-108: the delay is over, the status is requested
OcrDelay ==
  /\ ocr.pc = "delay"
  /\ ocr' = OcrGoes("ok", "status", "GET extract-results/batch", 0)
  /\ UNCHANGED <<notes, notes0, clients, schedVars, reviewVars, fill, bar>>

\* lines 104-129, 136: the answer to a status request
OcrStatus ==
  /\ ocr.pc = "status"
  /\ \E res \in StatusResponses :
       LET step == PollStep(res)
       IN ocr' = CASE step.to = "failed" -> OcrFails(StatusAnswer(res), step.value)
                   [] step.to = "download" ->
                        OcrGoes(StatusAnswer(res), "download", "GET zipUrl", 0)
                   [] OTHER ->
                        IF ocr.i + 1 < PollLimit
                        THEN [OcrGoes(StatusAnswer(res), "delay",
                                      "Zotero.Promise.delay", PollInterval)
                                EXCEPT !.i = ocr.i + 1]
                        ELSE [OcrFails(StatusAnswer(res), ErrTimedOut)
                                EXCEPT !.i = ocr.i + 1]
  /\ UNCHANGED <<notes, notes0, clients, schedVars, reviewVars, fill, bar>>

\* lines 136-167: the download of the archive and the search for a Markdown
\* file in it
OcrDownload ==
  /\ ocr.pc = "download"
  /\ \E end \in {"rejected", "not ok", "bad zip", "no markdown", "markdown"} :
       ocr' = CASE end = "rejected" -> OcrFails(end, ErrFetch)
                [] end = "not ok" -> OcrFails(end, ErrDownload)
                [] end = "bad zip" -> OcrFails(end, ErrZip)
                [] end = "no markdown" -> OcrFails(end, ErrNoMarkdown)
                [] OTHER -> [ocr EXCEPT !.pc = "returned", !.value = MARKDOWN,
                                        !.calls = Answer(@, "ok")]
  /\ UNCHANGED <<notes, notes0, clients, schedVars, reviewVars, fill, bar>>

OcrNext ==
  \/ OcrCheckKey
  \/ OcrAttachments
  \/ OcrFilePath
  \/ OcrRead
  \/ OcrBatch
  \/ OcrUpload
  \/ OcrDelay
  \/ OcrStatus
  \/ OcrDownload

OcrSpec == OcrInit /\ [][OcrNext]_vars

OcrEnded == ocr.pc \in {"returned", "failed"}
OcrCalls == IF ocr.pc = "off" THEN <<>> ELSE ocr.calls
\* the status requests made so far
StatusCalls == SelectSeq(OcrCalls, LAMBDA c : c.fn = "GET extract-results/batch")
Terminal == {"done", "done without url", "error"}
\* every status request follows a delay of the fixed interval, at most
\* PollLimit requests are made, and only the last one can have an answer
\* other than "running"
PollShape ==
  /\ \A k \in 1..Len(OcrCalls) :
       /\ OcrCalls[k].fn = "GET extract-results/batch" =>
            /\ k > 1
            /\ OcrCalls[k - 1].fn = "Zotero.Promise.delay"
            /\ OcrCalls[k - 1].arg = PollInterval
            /\ OcrCalls[k - 1].answer = "ok"
       /\ (OcrCalls[k].fn = "Zotero.Promise.delay" /\ k < Len(OcrCalls)) =>
            OcrCalls[k + 1].fn = "GET extract-results/batch"
  /\ Len(StatusCalls) <= PollLimit
  /\ \A j \in 1..(Len(StatusCalls) - 1) : StatusCalls[j].answer = "running"
\* what the answer to the last status request leads to
PollOutcome ==
  StatusCalls # <<>> =>
    LET last == StatusCalls[Len(StatusCalls)].answer
    IN /\ last = "done" =>
            /\ ocr.pc \in {"download", "returned", "failed"}
            /\ OcrCalls[Len(OcrCalls)].fn = "GET zipUrl"
            /\ ocr.pc = "failed" => ocr.value \in {ErrFetch, ErrDownload, ErrZip, ErrNoMarkdown}
       /\ last = "done without url" => (ocr.pc = "failed" /\ ocr.value = ErrNoZipUrl)
       /\ last = "error" => (ocr.pc = "failed" /\ ocr.value = ErrTaskFailed)

\* C25 as stated: the poll waits one fixed interval before every status
\* request, makes at most 60 of them, stops at the first answer whose state
\* is done or error, and, when no answer was done or error, fails with the
\* timeout error after the 60th request.
C25_TimeoutIsTheOnlyOtherEnd ==
  /\ PollShape
  /\ PollOutcome
  /\ (ocr.pc = "failed" /\ StatusCalls # <<>>
        /\ \A j \in 1..Len(StatusCalls) : StatusCalls[j].answer \notin Terminal)
       => (ocr.value = ErrTimedOut /\ Len(StatusCalls) = PollLimit)

\* C25, amended: as above, except that a status request that is rejected, or
\* whose answer is not JSON, fails the poll at once with that error; when
\* every answer is a parsed body that is neither done nor error, the poll
\* fails with the timeout error after the 60th request and not before.
C25_BoundedPolling ==
  /\ PollShape
  /\ PollOutcome
  /\ StatusCalls # <<>> =>
       LET last == StatusCalls[Len(StatusCalls)].answer
       IN /\ last = "rejected" => (ocr.pc = "failed" /\ ocr.value = ErrFetch)
          /\ last = "not json" => (ocr.pc = "failed" /\ ocr.value = ErrJson)
          /\ last = "running" =>
               /\ ocr.pc \in {"delay", "failed"}
               /\ ocr.pc = "failed" <=> Len(StatusCalls) = PollLimit
               /\ ocr.pc = "failed" => ocr.value = ErrTimedOut
  /\ (ocr.pc = "failed" /\ ocr.value = ErrTimedOut) =>
       /\ Len(StatusCalls) = PollLimit
       /\ \A j \in 1..PollLimit : StatusCalls[j].answer = "running"

\* the poll has timed out after its last request
C25_Witness ==
  /\ ocr.pc = "failed"
  /\ ocr.value = ErrTimedOut
  /\ Len(StatusCalls) = PollLimit
  /\ OcrCalls[Len(OcrCalls)].fn = "GET extract-results/batch"

\* the place of a call in the protocol
StepOf(fn) ==
  CASE fn = "getAllPdfAttachments" -> 1
    [] fn = "getFilePathAsync" -> 2
    [] fn = "IOUtils.read" -> 3
    [] fn = "POST file-urls/batch" -> 4
    [] fn = "PUT putUrl" -> 5
    [] fn = "Zotero.Promise.delay" -> 6
    [] fn = "GET extract-results/batch" -> 6
    [] fn = "GET zipUrl" -> 7
\* the answers after which the next call is made
Succeeded(call) ==
  IF call.fn = "GET extract-results/batch" THEN call.answer \in {"running", "done"}
  ELSE call.answer = "ok"
CallsNamed(fns) == {k \in 1..Len(OcrCalls) : OcrCalls[k].fn \in fns}

\* C27: extractMarkdown checks the API key, looks the attachment up and
\* reads the file, requests the upload URL, uploads, polls the status and
\* downloads the archive, in this order, each step only after the one before
\* it succeeded: without an API key nothing is read and nothing is requested,
\* and with a batch response that lacks the upload URL or the batch id there
\* is no upload and no poll.
C27_ProtocolOrder ==
  /\ ocr.pc # "off" =>
       /\ (OcrCalls # <<>>) => (ocr.apiKey # "" /\ StepOf(OcrCalls[1].fn) = 1)
       /\ (ocr.apiKey = "" /\ ocr.pc # "apiKey") => (ocr.pc = "failed" /\ ocr.value = ErrNoApiKey)
       /\ ocr.batchData # NotRun =>
            ((PutUrl(ocr.batchData) = "" \/ ocr.batchData.batch_id = "")
               => /\ ocr.pc = "failed"
                  /\ CallsNamed({"PUT putUrl", "Zotero.Promise.delay",
                                 "GET extract-results/batch", "GET zipUrl"}) = {})
       /\ ocr.pc = "returned" => StepOf(OcrCalls[Len(OcrCalls)].fn) = 7
  /\ \A k \in 1..(Len(OcrCalls) - 1) :
       /\ Succeeded(OcrCalls[k])
       /\ StepOf(OcrCalls[k + 1].fn) \in {StepOf(OcrCalls[k].fn), StepOf(OcrCalls[k].fn) + 1}
       /\ StepOf(OcrCalls[k + 1].fn) = StepOf(OcrCalls[k].fn) => StepOf(OcrCalls[k].fn) = 6
       /\ OcrCalls[k + 1].fn = "GET zipUrl" => OcrCalls[k].answer = "done"
       /\ OcrCalls[k + 1].fn = "PUT putUrl" =>
            (PutUrl(ocr.batchData) # "" /\ ocr.batchData.batch_id # "")

\* an extraction that went through every step and returned the Markdown
C27_Witness ==
  /\ ocr.pc = "returned"
  /\ ocr.value = MARKDOWN
  /\ {StepOf(OcrCalls[k].fn) : k \in 1..Len(OcrCalls)} = 1..7
  /\ Len(StatusCalls) > 1

\* ---------------------------------------------------------------------------
\* generateReview: the percentages passed to progressCallback
\* ---------------------------------------------------------------------------

\* the largest number of pairs of a run
MaxTotal == 50
\* a double has 53 significant bits
Precision == 53

\* a number is a sequence of bits, most significant first, times 2^exp
RECURSIVE BitsOf(_)
BitsOf(n) == IF n = 0 THEN <<>> ELSE Append(BitsOf(n \div 2), n % 2)
RECURSIVE ToInt(_)
ToInt(bits) ==
  IF bits = <<>> THEN 0
  ELSE 2 * ToInt(SubSeq(bits, 1, Len(bits) - 1)) + bits[Len(bits)]
\* bits with zeros in front, n bits long
Pad(bits, n) == [k \in 1..(n - Len(bits)) |-> 0] \o bits
\* bits + 1
Increment(bits) ==
  LET zeros == {k \in 1..Len(bits) : bits[k] = 0}
  IN IF zeros = {} THEN <<1>> \o [k \in 1..Len(bits) |-> 0]
     ELSE LET p == CHOOSE k \in zeros : \A j \in zeros : j <= k
          IN [k \in 1..Len(bits) |-> IF k < p THEN bits[k] ELSE IF k = p THEN 1 ELSE 0]
\* the number of zero bits in front of the first one bit of r / d, 0 < r < d
RECURSIVE LeadingZeros(_, _)
LeadingZeros(r, d) == IF 2 * r >= d THEN 0 ELSE 1 + LeadingZeros(2 * r, d)
\* the numbers are worked on Limb bits at a time
Limb == 16
\* the first n bits of the binary expansion of r / d, 0 <= r < d, and what
\* is left to divide
RECURSIVE FractionBits(_, _, _)
FractionBits(r, d, n) ==
  IF n = 0 THEN [bits |-> <<>>, rem |-> r]
  ELSE LET k == Min(Limb, n)
           rest == FractionBits((r * 2^k) % d, d, n - k)
       IN [bits |-> Pad(BitsOf((r * 2^k) \div d), k) \o rest.bits, rem |-> rest.rem]
\* round to nearest, ties to even: the double nearest to bits * 2^exp, where
\* bits starts with a one and sticky says that the exact value is larger
RoundToDouble(bits, sticky, exp) ==
  IF Len(bits) <= Precision
  THEN [sig |-> bits \o [k \in 1..(Precision - Len(bits)) |-> 0],
        exp |-> exp - (Precision - Len(bits))]
  ELSE LET keep == SubSeq(bits, 1, Precision)
           rest == SubSeq(bits, Precision + 1, Len(bits))
           more == sticky \/ \E k \in 2..Len(rest) : rest[k] = 1
           up == rest[1] = 1 /\ (more \/ keep[Precision] = 1)
           sig == IF up THEN Increment(keep) ELSE keep
       IN IF Len(sig) > Precision
          THEN [sig |-> SubSeq(sig, 1, Precision), exp |-> exp + Len(rest) + 1]
          ELSE [sig |-> sig, exp |-> exp + Len(rest)]
\* the double `a / b`, for integers 0 < a <= b
Quotient(a, b) ==
  IF a = b THEN RoundToDouble(<<1>>, FALSE, 0)
  ELSE LET z == LeadingZeros(a, b)
           q == FractionBits(a, b, z + Precision + 1)
       IN RoundToDouble(SubSeq(q.bits, z + 1, z + Precision + 1), q.rem # 0,
                        0 - (z + Precision + 1))
\* the bits of bits * m + carry, for a small integer m
RECURSIVE TimesSmall(_, _, _)
TimesSmall(bits, m, carry) ==
  IF bits = <<>> THEN BitsOf(carry)
  ELSE LET k == Min(Limb, Len(bits))
           d == ToInt(SubSeq(bits, Len(bits) - k + 1, Len(bits))) * m + carry
       IN TimesSmall(SubSeq(bits, 1, Len(bits) - k), m, d \div 2^k)
            \o Pad(BitsOf(d % 2^k), k)
\* the double `x * m`, for a double x and a small integer m
Times(x, m) == RoundToDouble(TimesSmall(x.sig, m, 0), FALSE, x.exp)
\* Math.floor(x), for a double 0 <= x < 2^Precision
Floor(x) ==
  IF Precision + x.exp <= 0 THEN 0 ELSE ToInt(SubSeq(x.sig, 1, Precision + x.exp))

\* a callback that scales the fill phase to 100
FillProgressUnscaled(done, n) == 10 + Floor(Times(Quotient(done, n), 100))

\* line 104: `10 + Math.floor((done / total) * 50)`
FillProgress(done, n) == 10 + Floor(Times(Quotient(done, n), 50))

BarInit ==
  /\ notes = [src \in Sources |-> <<>>]
  /\ notes0 = notes
  /\ clients = <<>>
  /\ SchedulerOff
  /\ ReviewOff
  /\ fill = [pc |-> "off"]
  /\ ocr = [pc |-> "off"]
  /\ \E n \in 0..MaxTotal :
       bar = [pc |-> "fill", total |-> n, done |-> 0, failed |-> 0,
              percents |-> <<10>>]

\* lines 517-525 and 103-105: a worker has a result for its pair, a table or
\* the placeholder of a failed fill: completed++, progressCallback(completed,
\* total), and the callback of generateReview reports the percentage
BarFillCompleted ==
  /\ bar.pc = "fill"
  /\ bar.done < bar.total
  /\ \E failed \in BOOLEAN :
       bar' = [bar EXCEPT !.done = @ + 1,
                          !.failed = IF failed THEN @ + 1 ELSE @,
                          !.percents = Append(@, FillProgress(bar.done + 1, bar.total))]
  /\ UNCHANGED <<notes, notes0, clients, schedVars, reviewVars, fill, ocr>>

\* lines 110-122: fillTablesInParallel has returned: 65, the aggregation, 70,
\* the call of the summarization collaborator
BarAggregate ==
  /\ bar.pc = "fill"
  /\ bar.done = bar.total
  /\ bar' = [bar EXCEPT !.pc = "synthesis", !.percents = @ \o <<65, 70>>]
  /\ UNCHANGED <<notes, notes0, clients, schedVars, reviewVars, fill, ocr>>

\* lines 122-137: the synthesis returns: the citations are resolved, 90, the
\* note is created; or the synthesis throws
BarSynthesis ==
  /\ bar.pc = "synthesis"
  /\ \E ok \in BOOLEAN :
       bar' = IF ok THEN [bar EXCEPT !.pc = "note", !.percents = Append(@, 90)]
              ELSE [bar EXCEPT !.pc = "failed"]
  /\ UNCHANGED <<notes, notes0, clients, schedVars, reviewVars, fill, ocr>>

\* lines 137-162: the note is saved, the sources are tagged (a failure of a
\* tag is caught), 100, return; or the transaction of the note throws
BarReturn ==
  /\ bar.pc = "note"
  /\ \E ok \in BOOLEAN :
       bar' = IF ok THEN [bar EXCEPT !.pc = "returned", !.percents = Append(@, 100)]
              ELSE [bar EXCEPT !.pc = "failed"]
  /\ UNCHANGED <<notes, notes0, clients, schedVars, reviewVars, fill, ocr>>

ProgressNext ==
  \/ BarFillCompleted
  \/ BarAggregate
  \/ BarSynthesis
  \/ BarReturn

ProgressSpec == BarInit /\ [][ProgressNext]_vars

Percents == IF bar.pc = "off" THEN <<>> ELSE bar.percents
\* the percentage reported after the j-th completion of the fill phase
FillPercentAt(j) == Percents[j + 1]
FillReports == IF bar.pc = "off" THEN {} ELSE 1..bar.done
\* 10 + floor(50 * done / total), in integers
FloorFormula(done, n) == 10 + ((50 * done) \div n)
\* the sequence never goes down, stays in 0..100, keeps the fill phase in
\* 10..60, and ends with 100 when the run returns
PercentsInRange ==
  /\ \A k \in 1..(Len(Percents) - 1) : Percents[k] <= Percents[k + 1]
  /\ \A k \in 1..Len(Percents) : Percents[k] \in 0..100
  /\ \A j \in FillReports : FillPercentAt(j) \in 10..60
  /\ (bar.pc = "returned") => Percents[Len(Percents)] = 100

\* C28 as stated: the percentages of a successful run never go down, lie in
\* 0..100, are 10 + floor(50 * done / total) and in 10..60 during the fill
\* phase, and end with 100, whichever sources fail.
C28_FillPercentIsFloorFormula ==
  /\ PercentsInRange
  /\ \A j \in FillReports : FillPercentAt(j) = FloorFormula(j, bar.total)

\* C28, amended: the percentages of a successful run never go down, lie in
\* 0..100, lie in 10..60 during the fill phase and end with 100, whichever
\* sources fail; the value reported after the done-th completion is
\* 10 + Math.floor((done / total) * 50) in double arithmetic, which is
\* 10 + floor(50 * done / total) or one less, and is 60 after the last one.
C28_PhaseProgress ==
  /\ PercentsInRange
  /\ \A j \in FillReports :
       /\ FillPercentAt(j) \in {FloorFormula(j, bar.total) - 1, FloorFormula(j, bar.total)}
       /\ j = bar.total => FillPercentAt(j) = 60
  /\ (bar.pc = "fill" /\ bar.done > 0) =>
       FillPercentAt(bar.done) = FillProgress(bar.done, bar.total)
  /\ bar.pc \in {"synthesis", "note", "returned", "failed"} => bar.done = bar.total
  /\ bar.pc = "returned" =>
       Percents = <<10>> \o [j \in 1..bar.total |-> FillProgress(j, bar.total)]
                    \o <<65, 70, 90, 100>>

\* a run that returned although some sources failed, in which one report of
\* the fill phase is below the integer formula
C28_Witness ==
  /\ bar.pc = "returned"
  /\ bar.total >= 1
  /\ bar.failed >= 1
  /\ \E j \in FillReports : FillPercentAt(j) < FloorFormula(j, bar.total)

\* the texts the extractor can return
ExtractorTexts == {llm.text : llm \in {r \in LlmReplies : r.ok}}
\* the pairs of source s
PairsOf(s) == {i \in Pairs : items[i] = s}
\* the extraction of pair i was started and failed
ExtractionFailed(i) == EvHas(i, "extract") /\ ~EvHas(i, "extracted") /\ Failed(i)
\* the table notes persisted for source s since the run started
PersistedSince(s) == SubSeq(notes[s], Len(notes0[s]) + 1, Len(notes[s]))
\* every table note persisted by the run holds a text that the extractor
\* returned for a pair of its source, never a placeholder
OnlyExtractedTextsPersisted ==
  \A s \in Sources :
    /\ IsPrefix(notes0[s], notes[s])
    /\ \A k \in 1..Len(PersistedSince(s)) :
         \E t \in ExtractorTexts :
           /\ PersistedSince(s)[k] = NewTableNote(t)
           /\ ~IsPlaceholder(t)
           /\ \E i \in PairsOf(s) : EvHas(i, "extracted") /\ EvVal(i, "extracted") = t
    /\ ~IsPlaceholder(findTableNote(notes[s]))

\* C29 as stated: no persisted table record holds a failure placeholder, and
\* after a run in which the extraction of a source failed find returns
\* absent for that source.
C29_FailedSourceStaysAbsent ==
  /\ runPc # "off" => OnlyExtractedTextsPersisted
  /\ runPc = "resolved" =>
       \A i \in Pairs : ExtractionFailed(i) => findTableNote(notes[items[i]]) = Null

\* C29, amended: no persisted table record holds a failure placeholder; a
\* pair whose fill failed persists nothing; after a run in which no pair of
\* a source had its text extracted, the notes of the source are those it had
\* before the run, so find returns for it what it returned before the run.
C29_PlaceholdersNeverCached ==
  runPc # "off" =>
    /\ OnlyExtractedTextsPersisted
    /\ \A s \in Sources :
         /\ Len(PersistedSince(s)) <= Cardinality({i \in PairsOf(s) : EvHas(i, "extracted")})
         /\ (\A i \in PairsOf(s) : ~EvHas(i, "extracted")) =>
              /\ notes[s] = notes0[s]
              /\ findTableNote(notes[s]) = findTableNote(notes0[s])
    /\ \A i \in Pairs :
         (ExtractionFailed(i) /\ Recorded(i)) =>
           /\ IsPlaceholder(EvVal(i, "record"))
           /\ \A k \in 1..Len(notes[items[i]]) :
                notes[items[i]][k] # NewTableNote(EvVal(i, "record"))

\* a run has ended in which the extraction of one source failed and that of
\* another was persisted: find is still absent for the first
C29_Witness ==
  /\ runPc = "resolved"
  /\ \E i \in Pairs, j \in Pairs :
       /\ ExtractionFailed(i)
       /\ notes0[items[i]] = <<>>
       /\ findTableNote(notes[items[i]]) = Null
       /\ items[j] # items[i]
       /\ PersistedSince(items[j]) # <<>>

\* how often the extractor was invoked for source s, and how often the key
\* of s was written
Extractions(s) == Cardinality({i \in PairsOf(s) : EvHas(i, "extract")})
Writes(s) == Cardinality({i \in PairsOf(s) : Recorded(i)})
SourcesOfRun == {items[i] : i \in Pairs}

\* C30 as stated: for any pairs list, also one in which two attachments have
\* the same parent source, the extractor is invoked at most once per
\* distinct source and each key of the results map is written exactly once.
C30_OncePerSource ==
  runPc # "off" =>
    \A s \in SourcesOfRun :
      /\ Extractions(s) <= 1
      /\ Writes(s) <= 1
      /\ runPc = "resolved" => Writes(s) = 1

\* C30, amended: under every interleaving the extractor is invoked at most
\* once per pair and each pair writes its key exactly once, so for a source
\* that occurs in one pair the extractor is invoked at most once and its key
\* is written exactly once; a source that occurs in several pairs has its
\* key written once per pair, the map keeping one entry for it with the
\* value of one of its pairs, and its extractor invoked for every pair that
\* missed the cache.
C30_OncePerPair ==
  runPc # "off" =>
    /\ \A i \in Pairs :
         /\ EvCount(i, "extract") <= 1
         /\ EvCount(i, "record") <= 1
         /\ EvHas(i, "extract") => Missed(i)
         /\ runPc = "resolved" => EvCount(i, "record") = 1
    /\ \A s \in SourcesOfRun :
         /\ Extractions(s) <= Cardinality(PairsOf(s))
         /\ Writes(s) <= Cardinality(PairsOf(s))
         /\ runPc = "resolved" => Writes(s) = Cardinality(PairsOf(s))
         /\ Cardinality({n \in 1..Len(results) : results[n].key = s}) =
              (IF Writes(s) = 0 THEN 0 ELSE 1)
         /\ Writes(s) > 0 => MapGet(results, s) \in RecordedFor(s)

\* two pairs of one source, both of which missed the cache and had the
\* extractor invoked, in a run that has ended with one entry for the source
C30_Witness ==
  /\ runPc = "resolved"
  /\ \E i \in Pairs, j \in Pairs :
       /\ i # j
       /\ items[i] = items[j]
       /\ EvHas(i, "extract") /\ EvHas(j, "extract")
       /\ Len(results) = 1

\* ---------------------------------------------------------------------------
\* postProcessCitations applied to its own return value
\* ---------------------------------------------------------------------------

\* the number of calls of postProcessCitations made so far
Passes == Len(trace)

TwiceInit ==
  /\ UnitsOff
  /\ notes = [src \in Sources |-> <<>>]
  /\ notes0 = notes
  /\ clients = <<>>
  /\ SchedulerOff
  /\ AggregationOff
  /\ itemPdfPairs \in ProsePairLists
  /\ content \in Proses
  /\ ixAt = <<0, 0>>
  /\ authorYearMap = <<>>
  /\ result = NotRun
  /\ reviewPc = "off"
  /\ trace = <<>>
  /\ review = [note |-> NotRun, tags |-> {}, saved |-> {}, tags0 |-> {}, tagAt |-> 0,
               returned |-> NotRun, error |-> NotRun]

\* postProcessCitations(content, itemPdfPairs) runs to its return
ResolveOnce ==
  /\ Passes = 0
  /\ \E post \in {postProcessCitations(content, itemPdfPairs)} :
       /\ authorYearMap' = post.authorYearMap
       /\ result' = Returned(post.result)
  /\ trace' = Append(trace, Event("resolved", 1))
  /\ UNCHANGED <<notes, notes0, clients, schedVars, unitVars, tableResults, aggregated,
                 itemPdfPairs, ixAt, content, reviewPc, review>>

\* postProcessCitations is called again, with the value it returned and the
\* same itemPdfPairs
ResolveAgain ==
  /\ Passes = 1
  /\ content' = result[1]
  /\ \E post \in {postProcessCitations(result[1], itemPdfPairs)} :
       /\ authorYearMap' = post.authorYearMap
       /\ result' = Returned(post.result)
  /\ trace' = Append(trace, Event("resolved", 2))
  /\ UNCHANGED <<notes, notes0, clients, schedVars, unitVars, tableResults, aggregated,
                 itemPdfPairs, ixAt, reviewPc, review>>

TwiceNext ==
  \/ ResolveOnce
  \/ ResolveAgain

TwiceSpec == TwiceInit /\ [][TwiceNext]_vars

\* C31: resolving the citations of a resolved prose against the same
\* sources returns it unchanged, and puts no link around or inside a link
\* of the first pass.
C31_ResolveIsIdempotent ==
  (reviewPc = "off" /\ Passes = 2) =>
    /\ result[1] = content
    /\ ~HasNestedLink(content) => ~HasNestedLink(result[1])

\* how many lines of ls are the line l, up to surrounding whitespace
LineCount(ls, l) == Cardinality({n \in 1..Len(ls) : Trim(ls[n]) = l})
\* the non-empty lines of a table text, trimmed, as a set
LinesOf(t) == {TrimmedLines(t)[n] : n \in 1..Len(TrimmedLines(t))}

\* C32 as stated: no non-empty line of a table text appears in the block of
\* its source more often than in the text, with data rows and in the
\* fallback to the raw text alike.
C32_NoLineTwice ==
  aggregated # NotRun =>
    \A k \in 1..Len(tableResults) :
      LET t == tableResults[k].value
      IN \A l \in LinesOf(t) :
           LineCount(Block(aggregated, k), l) <= LineCount(t, l)
====
